---- MODULE Spec2Model ----
(***************************************************************************)
(* Model of the todo-bridge converters (src/src/todo_converter): the      *)
(* Markdown pipeline (line partitioner, second pass, notes promotion,      *)
(* aggregation), the CSV row parser, document generation and the merge     *)
(* with a prior document.                                                  *)
(*                                                                         *)
(* A line of text is a record [ind, mark, box, body]: its leading          *)
(* whitespace (a sequence of " " and "\t"), its list marker, its checkbox  *)
(* and the rest of the text.  The body is kept as the fields the inline    *)
(* metadata parser extracts from it.  A note block is a sequence of lines  *)
(* (the text joined with "\n").                                            *)
(***************************************************************************)
EXTENDS Integers, Sequences, FiniteSets, TLC

(* ---------------------------- bounds ----------------------------------- *)
MaxLines == 3
MaxRows == 2
MaxPasses == 2
MaxGens == 2
\* the largest number written in a time estimate string
MaxN == 11

(* ------------------------- program constants --------------------------- *)
FirstLevelIndent == 2
DeepIndent == 3

(* ------------------------- model conventions --------------------------- *)
\* Python's None for ids and timestamps; generated ids start at 1
None == 0
\* clock units per calendar day: a timestamp ts falls on day ts \div DayLen
DayLen == 4
DefaultTitle == "Imported Tasks"
EmptyMap == [d \in {} |-> 0]

RECURSIVE SumSeq(_)
SumSeq(s) == IF s = <<>> THEN 0 ELSE Head(s) + SumSeq(Tail(s))

InSeq(x, s) == \E k \in 1..Len(s) : s[k] = x

Range(s) == {s[k] : k \in 1..Len(s)}

Count(x, s) == Cardinality({k \in 1..Len(s) : s[k] = x})

MaxOf(S, default) == IF S = {} THEN default ELSE CHOOSE m \in S : \A n \in S : n <= m

(* ------------------------------ lines ----------------------------------- *)
I0 == <<>>
I2 == <<" ", " ">>
I4 == <<" ", " ", " ", " ">>
I6 == <<" ", " ", " ", " ", " ", " ">>

\* a due annotation of a task text. text is the annotation as written; kind
\* is "time" when the value holds a "T" or a ":", else "date"; fmt is the
\* strptime format the value is written in ("iso" for %Y-%m-%d, "us" for
\* %m/%d/%Y, "" for a value no format accepts); day and time are the day
\* number and the time of day it denotes.
Due(text, kind, fmt, day, time) ==
  [text |-> text, kind |-> kind, fmt |-> fmt, day |-> day, time |-> time]

NoDue == Due("", "none", "", 0, 0)

\* a date string: its format and the day it denotes
DateString(fmt, day) == [fmt |-> fmt, day |-> day]

NoDay == DateString("", 0)

\* a time estimate whose hours do not fit a float, as "(99...9h)" of 400 digits
TooLarge == 0 - 1

Body(title, est, tags, spent, sdate, due) ==
  [title |-> title, est |-> est, tags |-> tags, spent |-> spent, sdate |-> sdate,
   due |-> due]

NoBody == Body("", 0, <<>>, 0, None, NoDue)

Line(ind, mark, box, body) == [ind |-> ind, mark |-> mark, box |-> box, body |-> body]

BlankLine == Line(I0, "none", "none", NoBody)

HasBody(l) == l.body # NoBody

IsBlank(l) == l = BlankLine

\* header regex: one to six "#" at column 0, whitespace, then text
HeaderMatch(l) == l.mark = "hash" /\ l.ind = I0 /\ HasBody(l)

\* task regex of the partitioner and the second pass: indent, a bullet or
\* ordinal marker, an optional checkbox, then text; when nothing follows the
\* checkbox the bracket itself is matched as the text and no checkbox is seen.
TaskMatch(l) == l.mark = "bullet" /\ (HasBody(l) \/ l.box # "none")

\* bare task regex: indent, a checkbox, then text
BareTaskMatch(l) == l.mark = "none" /\ l.box # "none" /\ HasBody(l)

\* task regex of the promotion pass: as the task regex, checkbox required
CheckboxTaskMatch(l) == l.mark = "bullet" /\ l.box # "none" /\ HasBody(l)

MatchCheckbox(l) ==
  IF TaskMatch(l) THEN (IF HasBody(l) THEN l.box ELSE "none") ELSE l.box

MatchContent(l) ==
  IF TaskMatch(l) /\ ~HasBody(l) THEN Body(l.box, 0, <<>>, 0, None, NoDue) ELSE l.body

(* ------------------------- str.strip on a block ------------------------- *)
RECURSIVE DropLeadingBlank(_)
DropLeadingBlank(s) ==
  IF s = <<>> THEN <<>>
  ELSE IF IsBlank(Head(s)) THEN DropLeadingBlank(Tail(s)) ELSE s

RECURSIVE RStripBlock(_)
RStripBlock(s) ==
  IF s = <<>> THEN <<>>
  ELSE IF IsBlank(s[Len(s)]) THEN RStripBlock(SubSeq(s, 1, Len(s) - 1)) ELSE s

LStripBlock(s) ==
  LET d == DropLeadingBlank(s)
  IN IF d = <<>> THEN <<>> ELSE <<[d[1] EXCEPT !.ind = I0]>> \o Tail(d)

StripBlock(s) == RStripBlock(LStripBlock(s))

(* ----------------------------- entities --------------------------------- *)
\* Task: the fields of models.Task that the converters read or write.
NewTask(id, title, notes, isDone, est, created) ==
  [id |-> id, title |-> title, notes |-> notes, isDone |-> isDone,
   timeEstimate |-> est, timeSpent |-> 0, timeSpentOnDay |-> EmptyMap,
   projectId |-> None, tagIds |-> <<>>, parentId |-> None, subTaskIds |-> <<>>,
   created |-> created, doneOn |-> None, dueDay |-> NoDay, dueWithTime |-> None]

NewProject(id, title) == [id |-> id, title |-> title, taskIds |-> <<>>]

NewTag(id, title) == [id |-> id, title |-> title, taskIds |-> <<>>]

\* datetime.fromtimestamp(ts / 1000).strftime("%Y-%m-%d"), as a day number
DateOf(ts) == ts \div DayLen

Lower(box) == IF box = "[X]" THEN "[x]" ELSE box

IndexOfId(seq, id) == CHOOSE k \in 1..Len(seq) : seq[k].id = id

HasId(seq, id) == \E k \in 1..Len(seq) : seq[k].id = id

(* ------------------------ BaseConverter helpers ------------------------- *)
\* _parse_date: the date in "%Y-%m-%d" when a format accepts the string
ParseDate(due) ==
  IF due.kind = "date" /\ due.fmt \in {"iso", "us"} THEN DateString("iso", due.day)
  ELSE NoDay

\* faulty variant: a project is created without the lookup by title
GetOrCreateProjectMutant(cs, project_name) ==
  LET name == IF project_name = "" THEN DefaultTitle ELSE project_name
  IN [cs |-> [cs EXCEPT !.projects = Append(@, NewProject(cs.nextId, name)),
                        !.nextId = @ + 1],
      id |-> cs.nextId]

\* _get_or_create_project
GetOrCreateProject(cs, project_name) ==
  LET name == IF project_name = "" THEN DefaultTitle ELSE project_name
  IN IF \E k \in 1..Len(cs.projects) : cs.projects[k].title = name
     THEN [cs |-> cs,
           id |-> cs.projects[CHOOSE k \in 1..Len(cs.projects) : cs.projects[k].title = name].id]
     ELSE [cs |-> [cs EXCEPT !.projects = Append(@, NewProject(cs.nextId, name)),
                             !.nextId = @ + 1],
           id |-> cs.nextId]

\* faulty variant: a tag is created without the lookup by title
GetOrCreateTagMutant(cs, tag_name) ==
  IF tag_name = "" THEN [cs |-> cs, id |-> None]
  ELSE [cs |-> [cs EXCEPT !.tags = Append(@, NewTag(cs.nextId, tag_name)),
                          !.nextId = @ + 1],
        id |-> cs.nextId]

\* _get_or_create_tag
GetOrCreateTag(cs, tag_name) ==
  IF tag_name = "" THEN [cs |-> cs, id |-> None]
  ELSE IF \E k \in 1..Len(cs.tags) : cs.tags[k].title = tag_name
  THEN [cs |-> cs,
        id |-> cs.tags[CHOOSE k \in 1..Len(cs.tags) :
                         /\ cs.tags[k].title = tag_name
                         /\ \A j \in 1..(k - 1) : cs.tags[j].title # tag_name].id]
  ELSE [cs |-> [cs EXCEPT !.tags = Append(@, NewTag(cs.nextId, tag_name)),
                          !.nextId = @ + 1],
        id |-> cs.nextId]

\* the "Handle tags" loop of _create_task and of _parse_csv_row
RECURSIVE AddTags(_, _, _)
AddTags(cs, names, tagIds) ==
  IF names = <<>> THEN [cs |-> cs, tagIds |-> tagIds]
  ELSE LET r == GetOrCreateTag(cs, Head(names))
       IN AddTags(r.cs, Tail(names),
                  IF r.id # None THEN Append(tagIds, r.id) ELSE tagIds)

(* ----------------------- MarkdownConverter helpers ---------------------- *)
\* _parse_task_content: the body of a line is held as the fields it yields
\* _parse_date_with_time: the timestamp when a pattern accepts the string
ParseDateWithTime(due) ==
  IF due.kind = "time" /\ due.fmt \in {"iso", "us"} THEN due.day * DayLen + due.time
  ELSE None

\* due_str.split("T")[0] or due_str.split()[0]: the date as it is written
DatePart(due) == DateString(due.fmt, due.day)

\* the due date branch of _parse_task_content
DueDateOf(due) ==
  IF due.kind = "time"
  THEN IF ParseDateWithTime(due) # None THEN DatePart(due) ELSE NoDay
  ELSE IF due.kind = "date" THEN ParseDate(due)
  ELSE NoDay

\* the place in due_patterns of the pattern that matches the annotation; the
\* annotations of the input alphabet are written "@due:<value>" but for one
DuePattern(due) ==
  CASE due.kind = "none" -> 7
    [] due.text = "@01/05/2025 02:00" -> 3
    [] OTHER -> 1

\* _parse_time_spent_patterns removes the time-spent annotation only when its
\* duration is positive. One of zero duration is still in the text when the
\* due patterns are tried, and its "@YYYY-MM-DD" suffix matches the second of
\* them; the first pattern that matches gives the due string.
DueMatch(content) ==
  IF content.spent = 0 /\ content.sdate # None /\ DuePattern(content.due) > 2
  THEN Due("@date", "date", "iso", content.sdate, 0)
  ELSE content.due

\* _parse_task_content. content.title is the text without its annotations:
\* each matched annotation, the due annotation whether or not its value
\* parsed, is removed from the text
ParseTaskContent(content) ==
  [title |-> content.title, notes |-> <<>>, time_estimate |-> content.est,
   tags |-> content.tags, time_spent |-> content.spent,
   time_spent_date |-> content.sdate,
   due_date |-> DueDateOf(DueMatch(content)),
   due_with_time |-> ParseDateWithTime(DueMatch(content))]

MergeNotes(content_notes, indented_notes) ==
  LET a == StripBlock(content_notes)
      b == IF StripBlock(indented_notes) # <<>> THEN RStripBlock(indented_notes) ELSE <<>>
  IN IF a # <<>> /\ b # <<>> THEN a \o <<BlankLine>> \o b
     ELSE IF a # <<>> THEN a ELSE b

HandleExplicitTimeSpent(task, info, now) ==
  IF info.time_spent > 0
  THEN LET spent_date == IF info.time_spent_date # None THEN info.time_spent_date
                         ELSE DateOf(now)
       IN [task EXCEPT !.timeSpent = info.time_spent,
                       !.timeSpentOnDay = [d \in {spent_date} |-> info.time_spent]]
  ELSE task

AddTimeSpentForCompletedTask(task) ==
  IF ~task.isDone \/ task.timeEstimate = 0 THEN task
  ELSE LET completion_timestamp == IF task.doneOn # None THEN task.doneOn ELSE task.created
       IN [task EXCEPT !.timeSpent = task.timeEstimate,
                       !.timeSpentOnDay =
                           [d \in {DateOf(completion_timestamp)} |-> task.timeEstimate]]

\* faulty variant: the child id is not appended to the parent's subTaskIds
EstablishParentChildRelationshipMutant(parent_task, child_task) ==
  [parent |-> parent_task,
   child |-> [child_task EXCEPT !.parentId = parent_task.id,
                                !.tagIds = IF child_task.tagIds = <<>>
                                           THEN parent_task.tagIds ELSE @]]

\* _establish_parent_child_relationship: returns the pair (parent, child)
\* after linking
EstablishParentChildRelationship(parent_task, child_task) ==
  [parent |-> [parent_task EXCEPT !.subTaskIds = Append(@, child_task.id)],
   child |-> [child_task EXCEPT !.parentId = parent_task.id,
                                !.tagIds = IF child_task.tagIds = <<>>
                                           THEN parent_task.tagIds ELSE @]]

RECURSIVE PopStack(_, _)
PopStack(stack, indent_level) ==
  IF stack # <<>> /\ stack[Len(stack)][1] >= indent_level
  THEN PopStack(SubSeq(stack, 1, Len(stack) - 1), indent_level)
  ELSE stack

\* _handle_task_hierarchy: the stack holds (indent_level, task id); the
\* parent object is the task of that id in the task list
HandleTaskHierarchy(cs, indent_level, task) ==
  LET stack == PopStack(cs.task_stack, indent_level)
  IN IF stack # <<>>
     THEN LET pid == stack[Len(stack)][2]
              k == IndexOfId(cs.tasks, pid)
              r == EstablishParentChildRelationship(cs.tasks[k], task)
          IN [cs |-> [cs EXCEPT !.tasks[k] = r.parent,
                                !.task_stack = Append(stack, <<indent_level, task.id>>)],
              task |-> r.child]
     ELSE [cs |-> [cs EXCEPT !.task_stack = Append(stack, <<indent_level, task.id>>)],
           task |-> task]

\* faulty variant: the bracket is compared without lower-casing
IsDoneOfMutant(checkbox) == checkbox = "[x]"

\* "Determine completion status": strip, lower, then membership
IsDoneOf(checkbox) == checkbox # "none" /\ Lower(checkbox) \in {"[x]", "[X]"}

\* _parse_time_estimate raises OverflowError on such an estimate, which
\* leaves _parse_task_content and _create_task before they change anything
Raises(content) == content.est = TooLarge

\* _create_task, "Create task": the Task constructor takes an id and the
\* creation time; the converter state is the one after both were drawn
CreatedTask(cs, task_info, is_done, notes) ==
  [cs |-> [cs EXCEPT !.nextId = @ + 1, !.now = @ + cs.tick],
   task |-> HandleExplicitTimeSpent(
              [NewTask(cs.nextId, task_info.title, MergeNotes(task_info.notes, notes),
                       is_done, task_info.time_estimate, cs.now)
                 EXCEPT !.dueDay = task_info.due_date,
                        !.dueWithTime = task_info.due_with_time],
              task_info, cs.now)]

\* faulty variant: the completion time is set on a task that is not done
HandleCompletionMutant(task) ==
  IF task.isDone
  THEN IF DOMAIN task.timeSpentOnDay = {}
       THEN AddTimeSpentForCompletedTask([task EXCEPT !.doneOn = task.created])
       ELSE [task EXCEPT !.doneOn = task.created]
  ELSE [task EXCEPT !.doneOn = task.created]

\* _create_task, "Handle completion"
HandleCompletion(task) ==
  IF task.isDone
  THEN IF DOMAIN task.timeSpentOnDay = {}
       THEN AddTimeSpentForCompletedTask([task EXCEPT !.doneOn = task.created])
       ELSE [task EXCEPT !.doneOn = task.created]
  ELSE task

WithProject(pr, task) == [cs |-> pr.cs, task |-> [task EXCEPT !.projectId = pr.id]]

\* _create_task, "Handle project assignment (only for non-subtasks)"
AssignProject(st, parent) ==
  IF parent = None
  THEN WithProject(GetOrCreateProject(st.cs, IF st.cs.current_project_name # ""
                                             THEN st.cs.current_project_name
                                             ELSE DefaultTitle),
                   st.task)
  ELSE st

WithTags(tg, task) == [cs |-> tg.cs, task |-> [task EXCEPT !.tagIds = tg.tagIds]]

\* _create_task, "Handle tags"
AssignTags(st, names) == WithTags(AddTags(st.cs, names, <<>>), st.task)

LinkedTo(cs, k, r) == [cs |-> [cs EXCEPT !.tasks[k] = r.parent], task |-> r.child]

\* _create_task, "Handle parent-child relationship"
LinkCreated(st, parent, indent_level) ==
  IF parent # None
  THEN LinkedTo(st.cs, IndexOfId(st.cs.tasks, parent),
                EstablishParentChildRelationship(
                  st.cs.tasks[IndexOfId(st.cs.tasks, parent)], st.task))
  ELSE IF indent_level > 0
  THEN HandleTaskHierarchy(st.cs, indent_level, st.task)
  ELSE st

\* _create_task: parent is the id of parent_task (None when absent); the
\* created task is returned with the converter state and is not yet listed
CreateTask(cs, content, checkbox, notes, parent, indent_level) ==
  LinkCreated(
    AssignTags(
      AssignProject(
        [CreatedTask(cs, ParseTaskContent(content), IsDoneOf(checkbox), notes)
           EXCEPT !.task = HandleCompletion(@)],
        parent),
      ParseTaskContent(content).tags),
    parent, indent_level)

\* self.tasks.append(task) of the callers of _create_task
Listed(r) == [r.cs EXCEPT !.tasks = Append(@, r.task)]

(* --------------------------- header texts ------------------------------- *)
\* the characters of the header texts of the input alphabet
Chars(text) ==
  CASE text = "2024-01-05" ->
         <<"2", "0", "2", "4", "-", "0", "1", "-", "0", "5">>
    [] OTHER -> <<"W", "o", "r", "k">>

RECURSIVE Join(_)
Join(chars) == IF chars = <<>> THEN "" ELSE Head(chars) \o Join(Tail(chars))

Digit == {"0", "1", "2", "3", "4", "5", "6", "7", "8", "9"}

\* \d{lo,hi} at position p, greedy: the longest run of lo..hi digits, 0 if none
DigitRun(chars, p, lo, hi) ==
  LET fits == {n \in lo..hi : /\ p + n - 1 <= Len(chars)
                               /\ \A k \in p..(p + n - 1) : chars[k] \in Digit}
  IN MaxOf(fits, 0)

\* the set of lengths <<a, b, c>> with which the date pattern of _handle_header
\* (1-2 digits, "/" or "-", 1-2 digits, "/" or "-", 2-4 digits) matches at p
DateMatchesAt(chars, p) ==
  {m \in (1..2) \X (1..2) \X (2..4) :
     /\ DigitRun(chars, p, m[1], m[1]) = m[1]
     /\ p + m[1] <= Len(chars) /\ chars[p + m[1]] \in {"/", "-"}
     /\ DigitRun(chars, p + m[1] + 1, m[2], m[2]) = m[2]
     /\ p + m[1] + m[2] + 1 <= Len(chars) /\ chars[p + m[1] + m[2] + 1] \in {"/", "-"}
     /\ DigitRun(chars, p + m[1] + m[2] + 2, m[3], m[3]) = m[3]}

\* the match the backtracking matcher returns at p: each group as long as
\* it can be, earlier groups first
GreedyMatch(ms) ==
  CHOOSE m \in ms : \A n \in ms :
    \/ m[1] > n[1]
    \/ m[1] = n[1] /\ m[2] > n[2]
    \/ m[1] = n[1] /\ m[2] = n[2] /\ m[3] >= n[3]

\* re.search: group 1 of the leftmost match, <<>> when there is none
RECURSIVE DateSearch(_, _)
DateSearch(chars, p) ==
  IF p > Len(chars) THEN <<>>
  ELSE IF DateMatchesAt(chars, p) # {}
  THEN SubSeq(chars, p, p + SumSeq(GreedyMatch(DateMatchesAt(chars, p))) + 1)
  ELSE DateSearch(chars, p + 1)

\* the project name _handle_header derives from the header text
HeaderProjectName(header_text) ==
  IF DateSearch(Chars(header_text), 1) # <<>>
  THEN "Tasks for " \o Join(DateSearch(Chars(header_text), 1))
  ELSE header_text

(* ------------------------- _parse_time_estimate ------------------------- *)
DigitValue(c) == CHOOSE k \in 0..9 : <<"0", "1", "2", "3", "4", "5", "6", "7", "8", "9">>[k + 1] = c

\* the number a run of digits writes; 0 for the empty run
RECURSIVE Val(_)
Val(chars) ==
  IF chars = <<>> THEN 0
  ELSE 10 * Val(SubSeq(chars, 1, Len(chars) - 1)) + DigitValue(chars[Len(chars)])

RECURSIVE Pow10(_)
Pow10(n) == IF n = 0 THEN 1 ELSE 10 * Pow10(n - 1)

LowerChar(c) == IF c = "H" THEN "h" ELSE IF c = "M" THEN "m" ELSE c

RECURSIVE LStrip(_)
LStrip(chars) ==
  IF chars # <<>> /\ Head(chars) = " " THEN LStrip(Tail(chars)) ELSE chars

RECURSIVE RStrip(_)
RStrip(chars) ==
  IF chars # <<>> /\ chars[Len(chars)] = " "
  THEN RStrip(SubSeq(chars, 1, Len(chars) - 1)) ELSE chars

\* estimate_str.strip().lower()
StripLower(chars) ==
  LET t == RStrip(LStrip(chars)) IN [k \in 1..Len(t) |-> LowerChar(t[k])]

\* the first index from q on that holds no space
RECURSIVE SkipSpaces(_, _)
SkipSpaces(chars, q) ==
  IF q <= Len(chars) /\ chars[q] = " " THEN SkipSpaces(chars, q + 1) ELSE q

\* a number as the quotient num / den, with its sign
Number(neg, num, den) == [kind |-> "finite", neg |-> neg, num |-> num, den |-> den]

NoNumber == [kind |-> "none", neg |-> FALSE, num |-> 0, den |-> 1]

\* the pattern (\d+\.?\d*)\s*<unit> at p: float(group 1) when it matches.
\* What follows the group is a literal, so the group is fixed by p.
UnitMatchAt(chars, p, unit) ==
  LET a == DigitRun(chars, p, 1, Len(chars))
      dot == p + a <= Len(chars) /\ chars[p + a] = "."
      q == IF dot THEN p + a + 1 ELSE p + a
      b == IF dot THEN DigitRun(chars, q, 1, Len(chars)) ELSE 0
      u == SkipSpaces(chars, q + b)
  IN IF a >= 1 /\ u <= Len(chars) /\ chars[u] = unit
     THEN Number(FALSE, Val(SubSeq(chars, p, p + a - 1) \o SubSeq(chars, q, q + b - 1)),
                 Pow10(b))
     ELSE NoNumber

\* re.search of the pattern: the leftmost match
RECURSIVE UnitSearch(_, _, _)
UnitSearch(chars, p, unit) ==
  IF p > Len(chars) THEN NoNumber
  ELSE IF UnitMatchAt(chars, p, unit) # NoNumber THEN UnitMatchAt(chars, p, unit)
  ELSE UnitSearch(chars, p + 1, unit)

\* float(estimate_str) of the texts of the input set: an optional sign, then
\* digits with an optional point and digits; "inf" and "nan" are floats too;
\* any other text raises ValueError (kind "none")
FloatOf(chars) ==
  LET signed == chars # <<>> /\ chars[1] \in {"-", "+"}
      p == IF signed THEN 2 ELSE 1
      a == DigitRun(chars, p, 1, Len(chars))
      dot == p + a <= Len(chars) /\ chars[p + a] = "."
      q == IF dot THEN p + a + 1 ELSE p + a
      b == IF dot THEN DigitRun(chars, q, 1, Len(chars)) ELSE 0
  IN IF SubSeq(chars, p, Len(chars)) \in {<<"i", "n", "f">>, <<"n", "a", "n">>}
     THEN [NoNumber EXCEPT !.kind = IF chars[p] = "i" THEN "inf" ELSE "nan"]
     ELSE IF a + b >= 1 /\ q + b = Len(chars) + 1
     THEN Number(signed /\ chars[1] = "-",
                 Val(SubSeq(chars, p, p + a - 1) \o SubSeq(chars, q, q + b - 1)), Pow10(b))
     ELSE NoNumber

\* int(x * per): the product truncated toward zero
Millis(x, per) ==
  IF x.neg THEN 0 - ((x.num * per) \div x.den) ELSE (x.num * per) \div x.den

Returned(total_ms) == [raised |-> "", total_ms |-> total_ms]

\* _parse_time_estimate: the milliseconds returned, or the exception raised
ParseTimeEstimate(estimate_str) ==
  LET s == StripLower(estimate_str)
      hours_match == UnitSearch(s, 1, "h")
      minutes_match == UnitSearch(s, 1, "m")
  IN IF s = <<>> THEN Returned(0)
     ELSE IF hours_match # NoNumber \/ minutes_match # NoNumber
     THEN Returned((IF hours_match # NoNumber THEN Millis(hours_match, 60 * 60 * 1000) ELSE 0)
                   + (IF minutes_match # NoNumber THEN Millis(minutes_match, 60 * 1000)
                      ELSE 0))
     ELSE IF FloatOf(s).kind = "finite"
     THEN \* "If no units found, assume minutes"
          Returned(Millis(FloatOf(s), 60 * 1000))
     ELSE IF FloatOf(s).kind = "inf"
     THEN \* int(inf) raises OverflowError, which "except ValueError" lets through
          [raised |-> "OverflowError", total_ms |-> 0]
     ELSE \* float() or int(nan) raises ValueError: total_ms = 0
          Returned(0)

\* faulty variant: the header does not change the current project
HandleHeaderMutant(cs, header_text) ==
  [cs EXCEPT !.task_stack = <<>>]

\* _handle_header
HandleHeader(cs, header_text) ==
  [cs EXCEPT !.current_project_name = HeaderProjectName(header_text), !.task_stack = <<>>]

\* faulty variant: a line whose title comes out empty yields no task
ParseMarkdownLineWithNotesMutant(cs, line, notes) ==
  IF (TaskMatch(line) \/ BareTaskMatch(line)) /\ ParseTaskContent(MatchContent(line)).title # ""
  THEN Listed(CreateTask(cs, MatchContent(line), MatchCheckbox(line), notes, None, 0))
  ELSE cs

\* _parse_markdown_line_with_notes and _handle_task_item_with_notes
ParseMarkdownLineWithNotes(cs, line, notes) ==
  IF TaskMatch(line) \/ BareTaskMatch(line)
  THEN Listed(CreateTask(cs, MatchContent(line), MatchCheckbox(line), notes, None, 0))
  ELSE cs

\* _parse_markdown_line and _handle_task_item
ParseMarkdownLine(cs, line) ==
  IF IsBlank(line) THEN cs
  ELSE IF HeaderMatch(line) THEN HandleHeader(cs, line.body.title)
  ELSE IF TaskMatch(line) \/ BareTaskMatch(line)
  THEN Listed(CreateTask(cs, MatchContent(line), MatchCheckbox(line), <<>>, None,
                         Len(line.ind)))
  ELSE cs

(* --------------------------- notes promotion ---------------------------- *)
\* "Remove one level of indentation": two leading spaces, else one
Dedent(l) ==
  IF Len(l.ind) >= 2 /\ l.ind[1] = " " /\ l.ind[2] = " "
  THEN [l EXCEPT !.ind = SubSeq(l.ind, 3, Len(l.ind))]
  ELSE IF Len(l.ind) >= 1 /\ l.ind[1] = " "
  THEN [l EXCEPT !.ind = SubSeq(l.ind, 2, Len(l.ind))]
  ELSE l

DedentAll(lines) == [k \in 1..Len(lines) |-> Dedent(lines[k])]

SomeSubtask(r) == [cs |-> r.cs, ok |-> TRUE, task |-> r.task]

\* _create_subtask_from_lines: ok is FALSE where the code returns None
CreateSubtaskFromLines(cs, lines, parent) ==
  IF lines = <<>> \/ ~(CheckboxTaskMatch(lines[1]) \/ BareTaskMatch(lines[1]))
  THEN [cs |-> cs, ok |-> FALSE, task |-> NewTask(None, "", <<>>, FALSE, 0, 0)]
  ELSE SomeSubtask(CreateTask(cs, lines[1].body, lines[1].box,
                              IF Len(lines) > 1 THEN RStripBlock(DedentAll(Tail(lines)))
                              ELSE <<>>,
                              parent, 0))

\* "if subtask: subtasks.append(subtask)"
AppendSubtask(acc, r) ==
  [acc EXCEPT !.cs = r.cs, !.subtasks = IF r.ok THEN Append(@, r.task) ELSE @]

\* the finalisation of the subtask being built, in _parse_notes_for_subtasks
FinalizeSubtask(acc, parent) ==
  IF acc.in_first_level_task /\ acc.current_subtask_lines # <<>>
  THEN AppendSubtask(acc, CreateSubtaskFromLines(acc.cs, acc.current_subtask_lines, parent))
  ELSE acc

\* faulty variant: an item of any depth counts as first-level
IsFirstLevelMutant(l) == CheckboxTaskMatch(l) \/ BareTaskMatch(l)

\* a checkbox item whose indent has at most two characters
IsFirstLevel(l) ==
  (CheckboxTaskMatch(l) \/ BareTaskMatch(l)) /\ Len(l.ind) <= FirstLevelIndent

RECURSIVE NotesLoop(_, _, _)
NotesLoop(acc, lines, parent) ==
  IF lines = <<>> THEN FinalizeSubtask(acc, parent)
  ELSE LET line == Head(lines)
       IN IF IsFirstLevel(line)
          THEN NotesLoop([FinalizeSubtask(acc, parent) EXCEPT
                             !.current_subtask_lines = <<line>>,
                             !.in_first_level_task = TRUE],
                         Tail(lines), parent)
          ELSE NotesLoop(IF acc.in_first_level_task
                         THEN [acc EXCEPT !.current_subtask_lines = Append(@, line)]
                         ELSE acc,
                         Tail(lines), parent)

\* the first first-level item of the notes for which _create_task raises,
\* 0 when there is none
RaisesAt(notes) ==
  MaxOf({k \in 1..Len(notes) :
           /\ IsFirstLevel(notes[k]) /\ Raises(notes[k].body)
           /\ \A j \in 1..(k - 1) : ~(IsFirstLevel(notes[j]) /\ Raises(notes[j].body))}, 0)

\* _parse_notes_for_subtasks: the subtasks created, and the converter state
ParseNotesForSubtasks(cs, notes, parent) ==
  NotesLoop([cs |-> cs, current_subtask_lines |-> <<>>,
             in_first_level_task |-> FALSE, subtasks |-> <<>>],
            notes, parent)

\* four spaces, a tab, or three or more whitespace characters
IsDeep(l) == Len(l.ind) >= DeepIndent \/ (l.ind # <<>> /\ l.ind[1] = "\t")

NextNonEmpty(lines, i) ==
  IF \E j \in (i + 1)..Len(lines) : ~IsBlank(lines[j])
  THEN CHOOSE j \in (i + 1)..Len(lines) :
         ~IsBlank(lines[j]) /\ \A m \in (i + 1)..(j - 1) : IsBlank(lines[m])
  ELSE Len(lines) + 1

\* one iteration of the inner loop of _clean_processed_notes at index i:
\* leave says that the iteration ends with "break"
SkipIteration(lines, i, cleaned) ==
  IF IsBlank(lines[i])
  THEN IF NextNonEmpty(lines, i) > Len(lines)
       THEN [i |-> i, cleaned |-> cleaned, leave |-> TRUE]
       ELSE IF IsDeep(lines[NextNonEmpty(lines, i)])
       THEN [i |-> i + 1, cleaned |-> cleaned, leave |-> FALSE]
       ELSE [i |-> i + 1, cleaned |-> Append(cleaned, lines[i]), leave |-> TRUE]
  ELSE IF IsDeep(lines[i]) THEN [i |-> i + 1, cleaned |-> cleaned, leave |-> FALSE]
  ELSE [i |-> i, cleaned |-> cleaned, leave |-> TRUE]

\* the inner loop of _clean_processed_notes, from index i
RECURSIVE SkipBlock(_, _, _)
SkipBlock(lines, i, cleaned) ==
  IF i > Len(lines) THEN [i |-> i, cleaned |-> cleaned]
  ELSE IF SkipIteration(lines, i, cleaned).leave
  THEN [i |-> SkipIteration(lines, i, cleaned).i,
        cleaned |-> SkipIteration(lines, i, cleaned).cleaned]
  ELSE SkipBlock(lines, i + 1, cleaned)

\* one iteration of the outer loop of _clean_processed_notes at index i
CleanIteration(lines, i, cleaned) ==
  IF IsFirstLevel(lines[i]) THEN SkipBlock(lines, i + 1, cleaned)
  ELSE [i |-> i + 1, cleaned |-> Append(cleaned, lines[i])]

\* the outer loop of _clean_processed_notes
RECURSIVE CleanLoop(_, _, _)
CleanLoop(lines, i, cleaned) ==
  IF i > Len(lines) THEN cleaned
  ELSE CleanLoop(lines, CleanIteration(lines, i, cleaned).i,
                 CleanIteration(lines, i, cleaned).cleaned)

\* re.sub of three or more newlines by two: a run of blank lines becomes one
RECURSIVE CollapseBlank(_)
CollapseBlank(s) ==
  IF Len(s) < 2 THEN s
  ELSE IF IsBlank(s[1]) /\ IsBlank(s[2]) THEN CollapseBlank(Tail(s))
  ELSE <<s[1]>> \o CollapseBlank(Tail(s))

CleanProcessedNotes(notes) ==
  IF notes = <<>> THEN <<>>
  ELSE StripBlock(CollapseBlank(CleanLoop(notes, 1, <<>>)))

\* one iteration of the loop of _process_notes_for_subtasks, on the task at
\* position p of the snapshot
\* "if subtasks": the subtasks join the task list and the parent's notes are
\* cleaned
ExtendWithSubtasks(r, p) ==
  IF r.subtasks # <<>>
  THEN [r.cs EXCEPT !.tasks = [@ EXCEPT ![p].notes = CleanProcessedNotes(@)] \o r.subtasks]
  ELSE r.cs

ProcessNotesOf(cs, p) ==
  IF cs.tasks[p].notes # <<>>
  THEN ExtendWithSubtasks(ParseNotesForSubtasks(cs, cs.tasks[p].notes, cs.tasks[p].id), p)
  ELSE cs

(* ----------------------------- aggregation ------------------------------ *)
ChildTasks(tasks, parent_task) ==
  SelectSeq(tasks, LAMBDA t : InSeq(t.id, parent_task.subTaskIds))

\* faulty variant: a date that several children share keeps the value of the
\* last of them
MergedTimeSpentOnDayMutant(child_tasks) ==
  LET dates == UNION {DOMAIN child_tasks[k].timeSpentOnDay : k \in 1..Len(child_tasks)}
  IN [d \in dates |->
        child_tasks[MaxOf({k \in 1..Len(child_tasks) :
                             d \in DOMAIN child_tasks[k].timeSpentOnDay}, 1)].timeSpentOnDay[d]]

\* the merge of the children's timeSpentOnDay maps
MergedTimeSpentOnDay(child_tasks) ==
  LET dates == UNION {DOMAIN child_tasks[k].timeSpentOnDay : k \in 1..Len(child_tasks)}
  IN [d \in dates |->
        SumSeq([k \in 1..Len(child_tasks) |->
                  IF d \in DOMAIN child_tasks[k].timeSpentOnDay
                  THEN child_tasks[k].timeSpentOnDay[d] ELSE 0])]

\* faulty variant: doneOn is taken from the first child, not the latest
AggregateParentMutant(tasks, k) ==
  LET parent_task == tasks[k]
      child_tasks == ChildTasks(tasks, parent_task)
      all_children_done == \A c \in 1..Len(child_tasks) : child_tasks[c].isDone
      summed == [parent_task EXCEPT
                   !.timeEstimate = SumSeq([c \in 1..Len(child_tasks) |-> child_tasks[c].timeEstimate]),
                   !.timeSpent = SumSeq([c \in 1..Len(child_tasks) |-> child_tasks[c].timeSpent]),
                   !.timeSpentOnDay = MergedTimeSpentOnDay(child_tasks)]
  IN IF child_tasks = <<>> THEN tasks
     ELSE IF all_children_done /\ ~parent_task.isDone
     THEN [tasks EXCEPT ![k] = [summed EXCEPT !.isDone = TRUE,
                                             !.doneOn = child_tasks[1].doneOn]]
     ELSE [tasks EXCEPT ![k] = summed]

\* the body of the loop of _calculate_parent_task_times for one parent
AggregateParent(tasks, k) ==
  LET parent_task == tasks[k]
      child_tasks == ChildTasks(tasks, parent_task)
      all_children_done == \A c \in 1..Len(child_tasks) : child_tasks[c].isDone
      summed == [parent_task EXCEPT
                   !.timeEstimate = SumSeq([c \in 1..Len(child_tasks) |-> child_tasks[c].timeEstimate]),
                   !.timeSpent = SumSeq([c \in 1..Len(child_tasks) |-> child_tasks[c].timeSpent]),
                   !.timeSpentOnDay = MergedTimeSpentOnDay(child_tasks)]
      latest_done_on ==
        MaxOf({child_tasks[c].doneOn : c \in {c \in 1..Len(child_tasks) : child_tasks[c].doneOn # None}},
              parent_task.created)
  IN IF child_tasks = <<>> THEN tasks
     ELSE IF all_children_done /\ ~parent_task.isDone
     THEN [tasks EXCEPT ![k] = [summed EXCEPT !.isDone = TRUE, !.doneOn = latest_done_on]]
     ELSE [tasks EXCEPT ![k] = summed]

\* the parents are the tasks that have children when the pass starts, in list order
RECURSIVE AggregateFrom(_, _, _)
AggregateFrom(tasks, parents, k) ==
  IF k > Len(tasks) THEN tasks
  ELSE IF k \in parents THEN AggregateFrom(AggregateParent(tasks, k), parents, k + 1)
  ELSE AggregateFrom(tasks, parents, k + 1)

CalculateParentTaskTimes(tasks) ==
  AggregateFrom(tasks, {k \in 1..Len(tasks) : tasks[k].subTaskIds # <<>>}, 1)

(* ------------------------- document generation -------------------------- *)
\* faulty variant: the task id is appended without the membership test
RECURSIVE LinkProjectsMutant(_, _)
LinkProjectsMutant(projects, tasks) ==
  IF tasks = <<>> THEN projects
  ELSE LET task == Head(tasks)
       IN IF task.projectId # None /\ HasId(projects, task.projectId)
          THEN LinkProjectsMutant(
                 [projects EXCEPT ![IndexOfId(projects, task.projectId)].taskIds =
                    Append(@, task.id)],
                 Tail(tasks))
          ELSE LinkProjectsMutant(projects, Tail(tasks))

\* the two linking loops shared by get_super_productivity_data and
\* _prepare_for_merge: a task id is appended unless already listed
RECURSIVE LinkProjects(_, _)
LinkProjects(projects, tasks) ==
  IF tasks = <<>> THEN projects
  ELSE LET task == Head(tasks)
       IN IF task.projectId # None /\ HasId(projects, task.projectId)
          THEN LET k == IndexOfId(projects, task.projectId)
               IN LinkProjects(IF ~InSeq(task.id, projects[k].taskIds)
                               THEN [projects EXCEPT ![k].taskIds = Append(@, task.id)]
                               ELSE projects,
                               Tail(tasks))
          ELSE LinkProjects(projects, Tail(tasks))

RECURSIVE LinkTagIds(_, _, _)
LinkTagIds(tags, task_id, tagIds) ==
  IF tagIds = <<>> THEN tags
  ELSE IF HasId(tags, Head(tagIds))
  THEN LET k == IndexOfId(tags, Head(tagIds))
       IN LinkTagIds(IF ~InSeq(task_id, tags[k].taskIds)
                     THEN [tags EXCEPT ![k].taskIds = Append(@, task_id)]
                     ELSE tags,
                     task_id, Tail(tagIds))
  ELSE LinkTagIds(tags, task_id, Tail(tagIds))

RECURSIVE LinkTags(_, _)
LinkTags(tags, tasks) ==
  IF tasks = <<>> THEN tags
  ELSE LinkTags(LinkTagIds(tags, Head(tasks).id, Head(tasks).tagIds), Tail(tasks))

\* the "data" part of the returned document: entity maps in insertion order
Document(tasks, projects, tags) == [task |-> tasks, project |-> projects, tag |-> tags]

NoDocument == Document(<<>>, <<>>, <<>>)

(* -------------------------------- merge --------------------------------- *)
\* dict[key] = value: replaces the entry of that key, else inserts at the end
DictSet(entities, e) ==
  IF HasId(entities, e.id) THEN [entities EXCEPT ![IndexOfId(entities, e.id)] = e]
  ELSE Append(entities, e)

\* faulty variant: the new map replaces the prior one
DictUpdateMutant(entities, new) == new

\* dict.update(new)
RECURSIVE DictUpdate(_, _)
DictUpdate(entities, new) ==
  IF new = <<>> THEN entities ELSE DictUpdate(DictSet(entities, Head(new)), Tail(new))

HasTitle(entities, title) == \E k \in 1..Len(entities) : entities[k].title = title

\* title -> id built by a dict comprehension: the last entry of a title wins
TitleToId(entities, title) ==
  entities[CHOOSE k \in 1..Len(entities) :
             /\ entities[k].title = title
             /\ \A j \in (k + 1)..Len(entities) : entities[j].title # title].id

RECURSIVE AppendMissing(_, _)
AppendMissing(taskIds, ids) ==
  IF ids = <<>> THEN taskIds
  ELSE AppendMissing(IF InSeq(Head(ids), taskIds) THEN taskIds
                     ELSE Append(taskIds, Head(ids)),
                     Tail(ids))

IdsOf(tasks) == [k \in 1..Len(tasks) |-> tasks[k].id]

\* faulty variant: no task is reassigned
ReassignTasksToExistingProjectMutant(tasks, old_project_id, new_project_id) == tasks

ReassignTasksToExistingProject(tasks, old_project_id, new_project_id) ==
  [k \in 1..Len(tasks) |->
     IF tasks[k].projectId = old_project_id
     THEN [tasks[k] EXCEPT !.projectId = new_project_id] ELSE tasks[k]]

ReassignTasksToExistingTag(tasks, old_tag_id, new_tag_id) ==
  [k \in 1..Len(tasks) |->
     [tasks[k] EXCEPT !.tagIds =
        [j \in 1..Len(tasks[k].tagIds) |->
           IF tasks[k].tagIds[j] = old_tag_id THEN new_tag_id ELSE tasks[k].tagIds[j]]]]

\* faulty variant: the tasks are reassigned before their ids are collected,
\* so that no task names the new project any more when the ids are appended
RECURSIVE MergeProjectsMutant(_, _, _)
MergeProjectsMutant(m, existing, new) ==
  IF new = <<>> THEN m
  ELSE LET new_proj == Head(new)
       IN IF HasTitle(existing, new_proj.title)
          THEN LET existing_proj_id == TitleToId(existing, new_proj.title)
                   reassigned == ReassignTasksToExistingProject(
                                   m.tasks, new_proj.id, existing_proj_id)
                   refs == IdsOf(SelectSeq(reassigned, LAMBDA t : t.projectId = new_proj.id))
                   linked == IF HasId(m.merged, existing_proj_id)
                             THEN [m.merged EXCEPT ![IndexOfId(m.merged, existing_proj_id)].taskIds =
                                      AppendMissing(@, refs)]
                             ELSE m.merged
               IN MergeProjectsMutant([merged |-> linked, tasks |-> reassigned],
                                      existing, Tail(new))
          ELSE MergeProjectsMutant([m EXCEPT !.merged = DictSet(@, new_proj)],
                                   existing, Tail(new))

\* the "Merge projects" loop: existing is the prior collection (for the title
\* index), m.merged the merged collection, m.tasks the converter's tasks
RECURSIVE MergeProjects(_, _, _)
MergeProjects(m, existing, new) ==
  IF new = <<>> THEN m
  ELSE LET new_proj == Head(new)
       IN IF HasTitle(existing, new_proj.title)
          THEN LET existing_proj_id == TitleToId(existing, new_proj.title)
                   refs == IdsOf(SelectSeq(m.tasks, LAMBDA t : t.projectId = new_proj.id))
                   linked == IF HasId(m.merged, existing_proj_id)
                             THEN [m.merged EXCEPT ![IndexOfId(m.merged, existing_proj_id)].taskIds =
                                      AppendMissing(@, refs)]
                             ELSE m.merged
               IN MergeProjects([merged |-> linked,
                                 tasks |-> ReassignTasksToExistingProject(
                                              m.tasks, new_proj.id, existing_proj_id)],
                                existing, Tail(new))
          ELSE MergeProjects([m EXCEPT !.merged = DictSet(@, new_proj)], existing, Tail(new))

RECURSIVE MergeTags(_, _, _)
MergeTags(m, existing, new) ==
  IF new = <<>> THEN m
  ELSE LET new_tag == Head(new)
       IN IF HasTitle(existing, new_tag.title)
          THEN LET existing_tag_id == TitleToId(existing, new_tag.title)
                   refs == IdsOf(SelectSeq(m.tasks, LAMBDA t : InSeq(new_tag.id, t.tagIds)))
                   linked == IF HasId(m.merged, existing_tag_id)
                             THEN [m.merged EXCEPT ![IndexOfId(m.merged, existing_tag_id)].taskIds =
                                      AppendMissing(@, refs)]
                             ELSE m.merged
               IN MergeTags([merged |-> linked,
                             tasks |-> ReassignTasksToExistingTag(
                                          m.tasks, new_tag.id, existing_tag_id)],
                            existing, Tail(new))
          ELSE MergeTags([m EXCEPT !.merged = DictSet(@, new_tag)], existing, Tail(new))

\* merge_with_existing_data on a well-formed prior document: the returned
\* document and the converter's collections after the call
MergeWithExistingData(existing_data, tasks0, projects0, tags0) ==
  LET new_projects == LinkProjects(projects0, tasks0)
      new_tags == LinkTags(tags0, tasks0)
      mp == MergeProjects([merged |-> existing_data.project, tasks |-> tasks0],
                          existing_data.project, new_projects)
      mt == MergeTags([merged |-> existing_data.tag, tasks |-> mp.tasks],
                      existing_data.tag, new_tags)
  IN [data |-> Document(DictUpdate(existing_data.task, mt.tasks), mp.merged, mt.merged),
      tasks |-> mt.tasks, projects |-> new_projects, tags |-> new_tags]

(* ------------------------------ CSV rows -------------------------------- *)
\* a row after csv.DictReader: the cells the row parser reads; tags and
\* subtasks are the cells split on "," and "|" with each piece stripped
\* a row as csv.DictReader yields it. dueDay and dueWithTime are the cells as
\* written; short says that the row ends before its last column, subtasks,
\* whose value is then None
Row(title, project, tags, isDone, est, created, subtasks, dueDay, dueWithTime, short) ==
  [title |-> title, project |-> project, tags |-> tags, isDone |-> isDone,
   est |-> est, created |-> created, subtasks |-> subtasks,
   dueDay |-> dueDay, dueWithTime |-> dueWithTime, short |-> short]

LowerWord(w) == IF w = "TRUE" THEN "true" ELSE IF w = "Yes" THEN "yes" ELSE w

NonEmpty(names) == SelectSeq(names, LAMBDA n : n # "")

\* faulty variant: a subtask does not take the tags of its row
RECURSIVE AddCsvSubtasksMutant(_, _, _)
AddCsvSubtasksMutant(cs, task, subtask_titles) ==
  IF subtask_titles = <<>> THEN [cs |-> cs, task |-> task]
  ELSE LET subtask == [NewTask(cs.nextId, Head(subtask_titles), <<>>, FALSE, 0, cs.now)
                         EXCEPT !.projectId = task.projectId,
                                !.parentId = task.id]
       IN AddCsvSubtasksMutant([cs EXCEPT !.nextId = @ + 1, !.now = @ + cs.tick,
                                          !.tasks = Append(@, subtask)],
                               [task EXCEPT !.subTaskIds = Append(@, subtask.id)],
                               Tail(subtask_titles))

\* "Handle subtasks" of _parse_csv_row
RECURSIVE AddCsvSubtasks(_, _, _)
AddCsvSubtasks(cs, task, subtask_titles) ==
  IF subtask_titles = <<>> THEN [cs |-> cs, task |-> task]
  ELSE LET subtask == [NewTask(cs.nextId, Head(subtask_titles), <<>>, FALSE, 0, cs.now)
                         EXCEPT !.projectId = task.projectId,
                                !.parentId = task.id,
                                !.tagIds = task.tagIds]
       IN AddCsvSubtasks([cs EXCEPT !.nextId = @ + 1, !.now = @ + cs.tick,
                                    !.tasks = Append(@, subtask)],
                         [task EXCEPT !.subTaskIds = Append(@, subtask.id)],
                         Tail(subtask_titles))

\* the dueWithTime cell: datetime.fromisoformat, which reads a date as its
\* midnight, else _parse_date and the midnight of the day
CsvDueWithTime(cell) ==
  IF cell.fmt = "iso" THEN cell.day * DayLen + cell.time
  ELSE IF ParseDate(cell) # NoDay THEN ParseDate(cell).day * DayLen
  ELSE None

\* _parse_csv_row followed by the append of CSVConverter.parse
ParseCsvRow(cs, row) ==
  IF row.title = "" THEN cs
  ELSE LET t0 == NewTask(cs.nextId, row.title, <<>>,
                         LowerWord(row.isDone) \in {"true", "1", "yes", "completed", "done"},
                         row.est,
                         IF row.created # None THEN row.created ELSE cs.now)
           c0 == [cs EXCEPT !.nextId = @ + 1, !.now = @ + cs.tick]
           td == IF t0.isDone /\ t0.doneOn = None THEN [t0 EXCEPT !.doneOn = t0.created] ELSE t0
           t1 == [td EXCEPT !.dueDay = ParseDate(row.dueDay),
                            !.dueWithTime = CsvDueWithTime(row.dueWithTime)]
           pr == GetOrCreateProject(c0, IF row.project # "" THEN row.project ELSE DefaultTitle)
           t2 == [t1 EXCEPT !.projectId = pr.id]
           tg == AddTags(pr.cs, NonEmpty(row.tags), <<>>)
           t3 == [t2 EXCEPT !.tagIds = tg.tagIds]
           r == AddCsvSubtasks(tg.cs, t3, NonEmpty(row.subtasks))
       IN IF row.short
          THEN \* row.get("subtasks", "") is None and .strip() raises; parse()
               \* catches it: the project and the tags stay, no task is added
               tg.cs
          ELSE [r.cs EXCEPT !.tasks = Append(@, r.task)]

(* ------------------------------- inputs --------------------------------- *)
Alphabet ==
  { Line(I0, "hash", "none", Body("Work", 0, <<>>, 0, None, NoDue)),
    Line(I0, "bullet", "[ ]",
         Body("a", 1, <<>>, 0, None, Due("@01/05/2025 02:00", "time", "us", 5, 2))),
    Line(I0, "none", "[x]",
         Body("b", 2, <<"t", "t">>, 0, None, Due("@due:2025-01-05T25:00", "time", "", 0, 0))),
    Line(I0, "bullet", "none", Body("p", 0, <<>>, 0, None, Due("@due:someday", "date", "", 0, 0))),
    Line(I0, "bullet", "[X]",
         \* a text that its annotations consume whole
         Body("", 0, <<"u", "t">>, 0, None, Due("@due:2025-01-05T02:00", "time", "iso", 5, 2))),
    Line(I2, "bullet", "[ ]",
         Body("c", 1, <<"t">>, 0, None, Due("@due:01/06/2025", "date", "us", 6, 0))),
    Line(I2, "bullet", "[X]", Body("d", 2, <<>>, 1, 9, NoDue)),
    \* a time-spent annotation of zero duration with a date: "@spent:0m@<day 9>"
    Line(I4, "bullet", "[x]", Body("e", 1, <<>>, 0, 9, NoDue)),
    Line(I6, "none", "[x]", Body("f", 2, <<>>, 1, None, NoDue)),
    Line(I2, "none", "none", Body("n", 0, <<>>, 0, None, NoDue)),
    Line(I2, "bullet", "[ ]", Body("o", TooLarge, <<"w">>, 0, None, NoDue)),
    Line(I0, "hash", "none", Body("2024-01-05", 0, <<>>, 0, None, NoDue)),
    BlankLine }

Docs == UNION {[1..n -> Alphabet] : n \in 0..MaxLines}

RowAlphabet ==
  { Row("r", "", <<>>, "", 0, None, <<>>, NoDue, NoDue, FALSE),
    Row("s", "Work", <<"t", "", "u">>, "TRUE", 2, None, <<"x", "", "y">>,
        NoDue, Due("01/04/2025", "date", "us", 4, 0), FALSE),
    Row("", "Work", <<"t">>, "yes", 1, None, <<"z">>, NoDue, NoDue, FALSE),
    Row("v", "Work", <<"t", "t">>, "no", 1, 3, <<"w">>,
        Due("01/05/2025", "date", "us", 5, 0),
        Due("2025-01-06T01:00", "time", "iso", 6, 1), FALSE),
    Row("q", "", <<"u">>, "done", 0, 2, <<>>,
        Due("2025-01-05", "date", "iso", 5, 0), NoDue, FALSE),
    Row("k", "Home", <<"h">>, "", 0, None, <<>>, NoDue, NoDue, TRUE) }

Sheets == UNION {[1..n -> RowAlphabet] : n \in 0..MaxRows}

\* the decimal digits of n
RECURSIVE Dec(_)
Dec(n) ==
  IF n < 10 THEN <<<<"0", "1", "2", "3", "4", "5", "6", "7", "8", "9">>[n + 1]>>
  ELSE Dec(n \div 10) \o Dec(n % 10)

\* time estimate strings: "<N>h", "<M>m", "<N>h <M>m", a bare number with or
\* without a sign, and texts with a fraction, padding, capitals or no number
EstimateStrings ==
  {Dec(N) \o <<"h">> : N \in 0..MaxN}
  \cup {Dec(M) \o <<"m">> : M \in 0..MaxN}
  \cup {Dec(nm[1]) \o <<"h", " ">> \o Dec(nm[2]) \o <<"m">> : nm \in (0..MaxN) \X (0..MaxN)}
  \cup {Dec(M) : M \in 0..MaxN}
  \cup {<<"-">> \o Dec(M) : M \in 0..MaxN}
  \cup {<<>>, <<" ">>, <<"s", "o", "o", "n">>, <<"i", "n", "f">>, <<"n", "a", "n">>,
        <<"1", ".", "5", "h">>, <<" ", "2", "H", " ">>, <<"3", " ", "m">>,
        <<"1", "h", "3", "0">>, <<"1", "m", " ", "2", "h">>, <<".", "5">>, <<"-", "5", "h">>}

PriorTask(id, projectId, tagIds) ==
  [NewTask(id, "old", <<>>, FALSE, 1, 1) EXCEPT !.projectId = projectId, !.tagIds = tagIds]

PriorDocs ==
  { NoDocument,
    Document(<<PriorTask(121, 101, <<111>>)>>,
             <<[id |-> 101, title |-> DefaultTitle, taskIds |-> <<121>>],
               [id |-> 102, title |-> "Work", taskIds |-> <<>>]>>,
             <<[id |-> 111, title |-> "t", taskIds |-> <<121>>]>>),
    Document(<<PriorTask(121, 102, <<>>), PriorTask(122, 103, <<112>>)>>,
             <<[id |-> 102, title |-> "Work", taskIds |-> <<121>>],
               [id |-> 103, title |-> "Work", taskIds |-> <<122>>]>>,
             <<[id |-> 112, title |-> "u", taskIds |-> <<122>>]>>) }

\* prior files that merge_with_existing_data cannot merge: a file that is
\* missing or is not JSON, and JSON objects that lack data.task,
\* data.project or data.tag
MalformedFiles == {"unreadable", "no data.task", "no data.project", "no data.tag"}

NoError == [file |-> "", raised |-> ""]

\* the head of merge_with_existing_data: the exception raised for the file
LoadError(existing_backup_file) ==
  IF existing_backup_file = "unreadable"
  THEN \* except (FileNotFoundError, json.JSONDecodeError)
       "ValueError"
  ELSE IF existing_backup_file = "no data.task"
  THEN \* "Validate it's a Super Productivity backup"
       "ValueError"
  ELSE \* existing_data["data"]["project"] and ["tag"] are read unguarded
       "KeyError"

(* -------------------------------- state --------------------------------- *)
VARIABLES
  mode,                  \* "md" or "csv": the converter class
  input_exists,          \* self.input_file.exists()
  lines,                 \* the Markdown file, as read by readlines
  rows,                  \* the CSV file, as read by DictReader
  tick,                  \* what the clock advances between two task creations
  pc,                    \* position in parse() and in the caller
  i,                     \* partitioner: lines consumed
  has_current,           \* partitioner: current_task_line is not None
  current_task_line,
  current_notes,
  processed_lines,
  rec,                   \* second pass / row loop / promotion loop: units done
  snapshot,              \* promotion loop: length of self.tasks[:]
  tasks, projects, tags, \* the converter's collections
  current_project_name, task_stack,
  nextId, now,           \* generate_id and time.time
  passes,                \* completed runs of _calculate_parent_task_times
  gens,                  \* calls of get_super_productivity_data
  document,              \* the last document returned by get_super_productivity_data
  prior,                 \* the prior document given to merge_with_existing_data
  merged,                \* the document returned by merge_with_existing_data
  error,                 \* the exception merge_with_existing_data raised, and for which file
  estimate_str,          \* the argument of a call of _parse_time_estimate
  estimate               \* what the call returned or raised

vars == <<mode, input_exists, lines, rows, tick, pc, i, has_current, current_task_line, current_notes,
          processed_lines, rec, snapshot, tasks, projects, tags, current_project_name,
          task_stack, nextId, now, passes, gens, document, prior, merged, error,
          estimate_str, estimate>>

inputVars == <<mode, input_exists, lines, rows, tick>>
partVars == <<i, has_current, current_task_line, current_notes, processed_lines>>
convVars == <<tasks, projects, tags, current_project_name, task_stack, nextId, now>>
outVars == <<document, prior, merged, error>>
unitVars == <<estimate_str, estimate>>

CS == [tasks |-> tasks, projects |-> projects, tags |-> tags,
       current_project_name |-> current_project_name, task_stack |-> task_stack,
       nextId |-> nextId, now |-> now, tick |-> tick]

SetCS(cs) ==
  /\ tasks' = cs.tasks
  /\ projects' = cs.projects
  /\ tags' = cs.tags
  /\ current_project_name' = cs.current_project_name
  /\ task_stack' = cs.task_stack
  /\ nextId' = cs.nextId
  /\ now' = cs.now

\* BaseConverter.__init__ and _create_default_project of the chosen
\* converter: parse() has not been called. lines and rows are what the input
\* file holds when it exists.
Init ==
  /\ mode \in {"md", "csv"}
  /\ input_exists \in BOOLEAN
  /\ lines \in (IF mode = "md" /\ input_exists THEN Docs ELSE {<<>>})
  /\ rows \in (IF mode = "csv" /\ input_exists THEN Sheets ELSE {<<>>})
  /\ tick \in {0, 1}
  /\ pc = "start"
  /\ i = 0
  /\ has_current = FALSE
  /\ current_task_line = BlankLine
  /\ current_notes = <<>>
  /\ processed_lines = <<>>
  /\ rec = 0
  /\ snapshot = 0
  /\ tasks = <<>>
  /\ projects = <<NewProject(1, DefaultTitle)>>
  /\ tags = <<>>
  /\ current_project_name = ""
  /\ task_stack = <<>>
  /\ nextId = 2
  /\ now = 2 * DayLen - 2
  /\ passes = 0
  /\ gens = 0
  /\ document = NoDocument
  /\ prior = NoDocument
  /\ merged = NoDocument
  /\ error = NoError
  /\ estimate_str = <<>>
  /\ estimate = Returned(0)

(* --------------------------- the head of parse() ------------------------ *)
\* faulty variant: the file is opened without the existence test
ParseOpenMutant(converter, exists) ==
  IF converter = "md" THEN "collect" ELSE "rows"

\* "if not self.input_file.exists(): raise FileNotFoundError": where parse()
\* of the converter goes from its first statement
ParseOpen(converter, exists) ==
  IF ~exists THEN "missing"
  ELSE IF converter = "md" THEN "collect" ELSE "rows"

\* parse() on a file that exists: the file is read
ParseStart ==
  /\ pc = "start"
  /\ ParseOpen(mode, input_exists) # "missing"
  /\ pc' = ParseOpen(mode, input_exists)
  /\ UNCHANGED <<inputVars, unitVars, partVars, rec, snapshot, convVars, passes, gens, outVars>>

\* parse() on a file that does not exist: FileNotFoundError leaves parse()
ParseMissing ==
  /\ pc = "start"
  /\ ParseOpen(mode, input_exists) = "missing"
  /\ pc' = "missing"
  /\ error' = [file |-> "input", raised |-> "FileNotFoundError"]
  /\ UNCHANGED <<inputVars, unitVars, partVars, rec, snapshot, convVars, passes, gens, document,
                 prior, merged>>

(* ------------------- _collect_indented_content_as_notes ----------------- *)
TaskRecord(line, notes) == [type |-> "task", line |-> line, notes |-> StripBlock(notes)]

RegularRecord(line) == [type |-> "regular", line |-> line, notes |-> <<>>]

Finalized == IF has_current
             THEN Append(processed_lines, TaskRecord(current_task_line, current_notes))
             ELSE processed_lines

\* faulty variant: a header under an open task is taken as a line of its notes
CollectHeaderMutant(line) ==
  IF has_current
  THEN [processed_lines |-> processed_lines, has_current |-> TRUE,
        current_task_line |-> current_task_line,
        current_notes |-> Append(current_notes, line)]
  ELSE [processed_lines |-> Append(processed_lines, RegularRecord(line)),
        has_current |-> FALSE, current_task_line |-> BlankLine, current_notes |-> <<>>]

\* "if header_match": the open task is finalized with the notes it has, no
\* task is open any more, and the header is emitted as a regular line
CollectHeader(line) ==
  [processed_lines |-> Append(Finalized, RegularRecord(line)),
   has_current |-> FALSE, current_task_line |-> BlankLine, current_notes |-> <<>>]

\* one iteration of the loop over the lines
CollectLine ==
  /\ pc = "collect"
  /\ i < Len(lines)
  /\ LET line == lines[i + 1]
     IN IF HeaderMatch(line)
        THEN /\ processed_lines' = CollectHeader(line).processed_lines
             /\ has_current' = CollectHeader(line).has_current
             /\ current_task_line' = CollectHeader(line).current_task_line
             /\ current_notes' = CollectHeader(line).current_notes
        ELSE IF TaskMatch(line) \/ BareTaskMatch(line)
        THEN IF Len(line.ind) = 0
             THEN /\ processed_lines' = Finalized
                  /\ has_current' = TRUE
                  /\ current_task_line' = line
                  /\ current_notes' = <<>>
             ELSE IF has_current
             THEN /\ current_notes' = Append(current_notes, line)
                  /\ UNCHANGED <<processed_lines, has_current, current_task_line>>
             ELSE /\ processed_lines' = Append(processed_lines, RegularRecord(line))
                  /\ UNCHANGED <<has_current, current_task_line, current_notes>>
        ELSE IF has_current
        THEN /\ current_notes' = Append(current_notes, line)
             /\ UNCHANGED <<processed_lines, has_current, current_task_line>>
        ELSE /\ processed_lines' = Append(processed_lines, RegularRecord(line))
             /\ UNCHANGED <<has_current, current_task_line, current_notes>>
  /\ i' = i + 1
  /\ UNCHANGED <<inputVars, unitVars, pc, rec, snapshot, convVars, passes, gens, outVars>>

\* "Handle the last task" and the return of the partitioner
CollectFinish ==
  /\ pc = "collect"
  /\ i = Len(lines)
  /\ processed_lines' = Finalized
  /\ has_current' = FALSE
  /\ current_task_line' = BlankLine
  /\ current_notes' = <<>>
  /\ pc' = "second"
  /\ rec' = 0
  /\ UNCHANGED <<inputVars, unitVars, i, snapshot, convVars, passes, gens, outVars>>

(* --------------------------- MarkdownConverter.parse -------------------- *)
\* the record is one for which the second pass calls _create_task, and the
\* call raises
RecordRaises(line_data) ==
  /\ TaskMatch(line_data.line) \/ BareTaskMatch(line_data.line)
  /\ Raises(MatchContent(line_data.line))

\* one iteration of the second pass
ParseRecord ==
  /\ pc = "second"
  /\ rec < Len(processed_lines)
  /\ LET line_data == processed_lines[rec + 1]
     IN SetCS(IF RecordRaises(line_data)
              THEN \* "except Exception": a warning is printed
                   CS
              ELSE IF line_data.type = "task"
              THEN ParseMarkdownLineWithNotes(CS, line_data.line, line_data.notes)
              ELSE ParseMarkdownLine(CS, line_data.line))
  /\ rec' = rec + 1
  /\ UNCHANGED <<inputVars, unitVars, pc, partVars, snapshot, passes, gens, outVars>>

\* _process_notes_for_subtasks takes the copy self.tasks[:] it iterates over
BeginPromotion ==
  /\ pc = "second"
  /\ rec = Len(processed_lines)
  /\ pc' = "promote"
  /\ snapshot' = Len(tasks)
  /\ rec' = 0
  /\ UNCHANGED <<inputVars, unitVars, partVars, convVars, passes, gens, outVars>>

\* faulty variant: the loop walks self.tasks itself, so the list it walks
\* grows with the subtasks it appends
PromoteTaskMutant ==
  /\ pc = "promote"
  /\ rec < snapshot
  /\ RaisesAt(tasks[rec + 1].notes) = 0
  /\ SetCS(ProcessNotesOf(CS, rec + 1))
  /\ rec' = rec + 1
  /\ snapshot' = Len(ProcessNotesOf(CS, rec + 1).tasks)
  /\ UNCHANGED <<inputVars, unitVars, pc, partVars, passes, gens, outVars>>

\* one iteration of the loop of _process_notes_for_subtasks
PromoteTask ==
  /\ pc = "promote"
  /\ rec < snapshot
  /\ RaisesAt(tasks[rec + 1].notes) = 0
  /\ SetCS(ProcessNotesOf(CS, rec + 1))
  /\ rec' = rec + 1
  /\ UNCHANGED <<inputVars, unitVars, pc, partVars, snapshot, passes, gens, outVars>>

\* the iteration in which _create_task raises: nothing catches the exception
\* and parse() ends with it. The subtasks made before it are linked to
\* their parent but did not join the task list, and the notes are not cleaned.
PromoteRaises ==
  /\ pc = "promote"
  /\ rec < snapshot
  /\ RaisesAt(tasks[rec + 1].notes) # 0
  /\ SetCS(ParseNotesForSubtasks(CS, SubSeq(tasks[rec + 1].notes, 1,
                                           RaisesAt(tasks[rec + 1].notes) - 1),
                                 tasks[rec + 1].id).cs)
  /\ pc' = "failed"
  /\ UNCHANGED <<inputVars, unitVars, partVars, rec, snapshot, passes, gens, outVars>>

\* the call of _calculate_parent_task_times that ends parse()
Aggregate ==
  /\ pc = "promote"
  /\ rec = snapshot
  /\ tasks' = CalculateParentTaskTimes(tasks)
  /\ passes' = passes + 1
  /\ pc' = "parsed"
  /\ UNCHANGED <<inputVars, unitVars, partVars, rec, snapshot, projects, tags, current_project_name,
                 task_stack, nextId, now, gens, outVars>>

\* a further call of _calculate_parent_task_times on the parsed converter
CalculateAgain ==
  /\ pc = "parsed"
  /\ mode = "md"
  /\ gens = 0
  /\ passes < MaxPasses
  /\ tasks' = CalculateParentTaskTimes(tasks)
  /\ passes' = passes + 1
  /\ UNCHANGED <<inputVars, unitVars, pc, partVars, rec, snapshot, projects, tags,
                 current_project_name, task_stack, nextId, now, gens, outVars>>

(* ----------------------------- CSVConverter.parse ----------------------- *)
CsvRow ==
  /\ pc = "rows"
  /\ rec < Len(rows)
  /\ SetCS(ParseCsvRow(CS, rows[rec + 1]))
  /\ rec' = rec + 1
  /\ UNCHANGED <<inputVars, unitVars, pc, partVars, snapshot, passes, gens, outVars>>

CsvDone ==
  /\ pc = "rows"
  /\ rec = Len(rows)
  /\ pc' = "parsed"
  /\ UNCHANGED <<inputVars, unitVars, partVars, rec, snapshot, convVars, passes, gens, outVars>>

(* ------------------------------ the callers ----------------------------- *)
\* get_super_productivity_data
Generate ==
  /\ pc = "parsed"
  /\ passes <= 1
  /\ gens < MaxGens
  /\ projects' = LinkProjects(projects, tasks)
  /\ tags' = LinkTags(tags, tasks)
  /\ document' = Document(tasks, projects', tags')
  /\ gens' = gens + 1
  /\ UNCHANGED <<inputVars, unitVars, pc, partVars, rec, snapshot, tasks, current_project_name,
                 task_stack, nextId, now, passes, prior, merged, error>>

\* merge_with_existing_data, called right after parse() as the CLI does
Merge ==
  /\ pc = "parsed"
  /\ gens = 0
  /\ passes <= 1
  /\ \E existing_data \in PriorDocs :
       LET m == MergeWithExistingData(existing_data, tasks, projects, tags)
       IN /\ prior' = existing_data
          /\ merged' = m.data
          /\ tasks' = m.tasks
          /\ projects' = m.projects
          /\ tags' = m.tags
  /\ pc' = "merged"
  /\ UNCHANGED <<inputVars, unitVars, partVars, rec, snapshot, current_project_name, task_stack,
                 nextId, now, passes, gens, document, error>>

\* merge_with_existing_data on a file that cannot be merged: the exception
\* leaves the method before _prepare_for_merge and before any reassignment
MergeRaises ==
  /\ pc = "parsed"
  /\ gens = 0
  /\ passes <= 1
  /\ \E existing_backup_file \in MalformedFiles :
       error' = [file |-> existing_backup_file, raised |-> LoadError(existing_backup_file)]
  /\ pc' = "merge failed"
  /\ UNCHANGED <<inputVars, unitVars, partVars, rec, snapshot, convVars, passes, gens, document,
                 prior, merged>>

Next ==
  \/ ParseStart
  \/ ParseMissing
  \/ CollectLine
  \/ CollectFinish
  \/ ParseRecord
  \/ BeginPromotion
  \/ PromoteTask
  \/ PromoteRaises
  \/ Aggregate
  \/ CalculateAgain
  \/ CsvRow
  \/ CsvDone
  \/ Generate
  \/ Merge
  \/ MergeRaises

Spec == Init /\ [][Next]_vars

(* ------------------- _parse_time_estimate on its own -------------------- *)
\* a converter on which nothing but _parse_time_estimate is called
EstimateInit ==
  /\ mode \in {"md", "csv"}
  /\ input_exists = TRUE
  /\ lines = <<>>
  /\ rows = <<>>
  /\ tick = 0
  /\ pc = "estimate"
  /\ i = 0
  /\ has_current = FALSE
  /\ current_task_line = BlankLine
  /\ current_notes = <<>>
  /\ processed_lines = <<>>
  /\ rec = 0
  /\ snapshot = 0
  /\ tasks = <<>>
  /\ projects = <<NewProject(1, DefaultTitle)>>
  /\ tags = <<>>
  /\ current_project_name = ""
  /\ task_stack = <<>>
  /\ nextId = 2
  /\ now = 2 * DayLen - 2
  /\ passes = 0
  /\ gens = 0
  /\ document = NoDocument
  /\ prior = NoDocument
  /\ merged = NoDocument
  /\ error = NoError
  /\ estimate_str \in EstimateStrings
  /\ estimate = Returned(0)

\* the call self._parse_time_estimate(estimate_str)
ParseEstimate ==
  /\ pc = "estimate"
  /\ estimate' = ParseTimeEstimate(estimate_str)
  /\ pc' = "estimated"
  /\ UNCHANGED <<inputVars, estimate_str, partVars, rec, snapshot, convVars, passes, gens,
                 outVars>>

EstimateNext == ParseEstimate

EstimateSpec == EstimateInit /\ [][EstimateNext]_vars

(* ------------------------------- claims --------------------------------- *)
IsPrefix(a, b) == Len(a) <= Len(b) /\ SubSeq(b, 1, Len(a)) = a

Gained(old, new) == {new[k] : k \in (Len(old) + 1)..Len(new)}

\* an entity of the prior document survives with, at most, taskIds extended
\* by ids of the converter's tasks
KeptUpToTaskIds(old, collection, newIds) ==
  /\ Cardinality({k \in 1..Len(collection) : collection[k].id = old.id}) = 1
  /\ LET e == collection[IndexOfId(collection, old.id)]
     IN /\ [e EXCEPT !.taskIds = old.taskIds] = old
        /\ IsPrefix(old.taskIds, e.taskIds)
        /\ Gained(old.taskIds, e.taskIds) \subseteq newIds

\* C1: merge is additive and non-destructive: the merged document holds every
\* task id of the prior document and of the converter, every prior task entity
\* unchanged, and every prior project and tag unchanged but for taskIds that
\* gained ids of the converter's tasks.
C1_MergeAdditive ==
  pc = "merged" =>
    LET newIds == {tasks[k].id : k \in 1..Len(tasks)}
    IN /\ \A k \in 1..Len(prior.task) : InSeq(prior.task[k], merged.task)
       /\ \A k \in 1..Len(tasks) : HasId(merged.task, tasks[k].id)
       /\ Len(merged.task) = Len(prior.task) + Len(tasks)
       /\ \A k \in 1..Len(prior.project) :
            KeptUpToTaskIds(prior.project[k], merged.project, newIds)
       /\ \A k \in 1..Len(prior.tag) :
            KeptUpToTaskIds(prior.tag[k], merged.tag, newIds)

C1_Witness ==
  /\ pc = "merged"
  /\ prior.task # <<>>
  /\ Len(tasks) >= 2
  /\ \E k \in 1..Len(prior.project) :
       Len(merged.project[IndexOfId(merged.project, prior.project[k].id)].taskIds)
         > Len(prior.project[k].taskIds)
  /\ \E k \in 1..Len(prior.tag) :
       Len(merged.tag[IndexOfId(merged.tag, prior.tag[k].id)].taskIds)
         > Len(prior.tag[k].taskIds)

TitleCount(entities, title) ==
  Cardinality({k \in 1..Len(entities) : entities[k].title = title})

PriorIds(entities, title) ==
  {entities[k].id : k \in {k \in 1..Len(entities) : entities[k].title = title}}

\* the id a reference to a converter entity must have after the merge
MergedRef(id, new, existing) ==
  IF HasId(new, id) /\ HasTitle(existing, new[IndexOfId(new, id)].title)
  THEN PriorIds(existing, new[IndexOfId(new, id)].title)
  ELSE {id}

\* C2: merge de-duplicates by title: a converter project or tag whose title is
\* the title of a prior one adds no entity of that title, and each task that
\* referenced it references the prior entity instead (projectId replaced, the
\* tagIds entry replaced in place); one without a title match is inserted
\* unchanged.  Stated of the step that performs the merge.
C2_MergeDedup ==
  [][(pc = "parsed" /\ pc' = "merged") =>
       /\ \A k \in 1..Len(projects') :
            IF HasTitle(prior'.project, projects'[k].title)
            THEN /\ TitleCount(merged'.project, projects'[k].title)
                      = TitleCount(prior'.project, projects'[k].title)
                 /\ ~HasId(merged'.project, projects'[k].id)
            ELSE InSeq(projects'[k], merged'.project)
       /\ \A k \in 1..Len(tags') :
            IF HasTitle(prior'.tag, tags'[k].title)
            THEN /\ TitleCount(merged'.tag, tags'[k].title)
                      = TitleCount(prior'.tag, tags'[k].title)
                 /\ ~HasId(merged'.tag, tags'[k].id)
            ELSE InSeq(tags'[k], merged'.tag)
       /\ Len(tasks') = Len(tasks)
       /\ \A k \in 1..Len(tasks) :
            /\ tasks'[k].id = tasks[k].id
            /\ InSeq(tasks'[k], merged'.task)
            /\ tasks'[k].projectId \in MergedRef(tasks[k].projectId, projects, prior'.project)
            /\ Len(tasks'[k].tagIds) = Len(tasks[k].tagIds)
            /\ \A j \in 1..Len(tasks[k].tagIds) :
                 tasks'[k].tagIds[j] \in MergedRef(tasks[k].tagIds[j], tags, prior'.tag)
  ]_vars

C2_Witness ==
  /\ pc = "merged"
  /\ \E k \in 1..Len(tasks) :
       /\ HasId(prior.project, tasks[k].projectId)
       /\ \E j \in 1..Len(tasks[k].tagIds) : HasId(prior.tag, tasks[k].tagIds[j])
  /\ \E k \in 1..Len(projects) : InSeq(projects[k], merged.project)
  /\ \E k \in 1..Len(tags) : InSeq(tags[k], merged.tag)

Parsed == pc \in {"parsed", "merged"}

MdParsed == mode = "md" /\ Parsed

\* a record for which the second pass calls _create_task, with success
IsCreator(r) ==
  /\ r.type = "task" \/ TaskMatch(r.line) \/ BareTaskMatch(r.line)
  /\ ~RecordRaises(r)

\* the records of the partitioner from which the second pass creates a task,
\* in order: the k-th of them created tasks[k]
Creators == SelectSeq(processed_lines, IsCreator)

\* a line at zero indentation: optional marker, checkbox, text
ZeroCheckbox(l) ==
  /\ l.ind = <<>>
  /\ l.mark \in {"bullet", "none"}
  /\ l.box \in {"[ ]", "[x]", "[X]"}
  /\ l.body # NoBody

LinesOf(records) == [k \in 1..Len(records) |-> records[k].line]

OneTaskPerZeroCheckbox ==
  /\ LinesOf(SelectSeq(processed_lines,
                       LAMBDA r : r.type = "task" /\ ZeroCheckbox(r.line)))
       = SelectSeq(lines, ZeroCheckbox)
  /\ Len(Creators) = snapshot
  /\ snapshot <= Len(tasks)
  /\ \A k \in 1..snapshot :
       ZeroCheckbox(Creators[k].line) =>
         /\ Creators[k].type = "task"
         /\ tasks[k].title = Creators[k].line.body.title
         /\ tasks[k].parentId = None

AllSubtasksDone(k) ==
  /\ tasks[k].subTaskIds # <<>>
  /\ \A c \in 1..Len(tasks) :
       InSeq(tasks[c].id, tasks[k].subTaskIds) => tasks[c].isDone

\* C3 as stated: every zero-indentation checkbox line yields exactly one
\* parentless task whose isDone is true exactly when the bracket holds x or X.
C3_IsDoneIsTheBracket ==
  MdParsed =>
    /\ OneTaskPerZeroCheckbox
    /\ \A k \in 1..snapshot :
         ZeroCheckbox(Creators[k].line) =>
           (tasks[k].isDone <=> Creators[k].line.box \in {"[x]", "[X]"})

\* C3 amended: every zero-indentation checkbox line yields exactly one
\* parentless task; its isDone is true exactly when the bracket holds x or X
\* or the task has promoted subtasks that are all done (the aggregation then
\* marks it done), and false otherwise.
C3_IsDoneBracketOrSubtasks ==
  MdParsed =>
    /\ OneTaskPerZeroCheckbox
    /\ \A k \in 1..snapshot :
         ZeroCheckbox(Creators[k].line) =>
           (tasks[k].isDone <=>
              (Creators[k].line.box \in {"[x]", "[X]"} \/ AllSubtasksDone(k)))

C3_Witness ==
  /\ MdParsed
  /\ \E k \in 1..snapshot :
       ZeroCheckbox(Creators[k].line) /\ Creators[k].line.box = "[X]" /\ tasks[k].isDone
  /\ \E k \in 1..snapshot :
       ZeroCheckbox(Creators[k].line) /\ Creators[k].line.box = "[ ]" /\ tasks[k].isDone

RECURSIVE HasAncestor(_, _, _)
HasAncestor(id, target, fuel) ==
  IF fuel = 0 \/ ~HasId(tasks, id) THEN FALSE
  ELSE LET parent == tasks[IndexOfId(tasks, id)].parentId
       IN parent # None /\ (parent = target \/ HasAncestor(parent, target, fuel - 1))

\* C4: after parse() of either converter the parent/child links are mutual
\* and form a forest: c.parentId = p.id exactly when c.id is in p.subTaskIds
\* (once), every link names a listed task, a task has at most one parent and
\* no task is its own ancestor.
C4_Forest ==
  Parsed =>
    /\ \A a, b \in 1..Len(tasks) : tasks[a].id = tasks[b].id => a = b
    /\ \A p, c \in 1..Len(tasks) :
         /\ (tasks[c].parentId = tasks[p].id) <=> InSeq(tasks[c].id, tasks[p].subTaskIds)
         /\ Count(tasks[c].id, tasks[p].subTaskIds) <= 1
    /\ \A c \in 1..Len(tasks) :
         /\ tasks[c].parentId # None => HasId(tasks, tasks[c].parentId)
         /\ \A j \in 1..Len(tasks[c].subTaskIds) : HasId(tasks, tasks[c].subTaskIds[j])
         /\ Cardinality({p \in 1..Len(tasks) : InSeq(tasks[c].id, tasks[p].subTaskIds)}) <= 1
         /\ ~HasAncestor(tasks[c].id, tasks[c].id, Len(tasks))

C4_Witness ==
  /\ Parsed
  /\ \E p, c, g \in 1..Len(tasks) :
       /\ tasks[c].parentId = tasks[p].id
       /\ tasks[g].parentId = tasks[c].id
       /\ InSeq(tasks[g].id, tasks[c].subTaskIds)

\* a checkbox item of a notes block, and its level
NoteItem(l) == l.box \in {"[ ]", "[x]", "[X]"} /\ l.body # NoBody /\ l.mark \in {"bullet", "none"}

FirstLevelItem(l) == NoteItem(l) /\ Len(l.ind) <= 2

FirstLevelPositions(notes) == {j \in 1..Len(notes) : FirstLevelItem(notes[j])}

RECURSIVE FirstLevelItems(_)
FirstLevelItems(records) ==
  IF records = <<>> THEN 0
  ELSE (IF Head(records).type = "task"
        THEN Cardinality(FirstLevelPositions(Head(records).notes)) ELSE 0)
       + FirstLevelItems(Tail(records))

\* promotion creates tasks only for the first-level items of the notes block
\* of a top-level task; a deeper item below a first-level item is kept as
\* text in the notes of that item's subtask; a promoted subtask has no
\* subtasks of its own
PromotionIsFirstLevelOnly ==
  /\ Len(Creators) = snapshot
  /\ snapshot <= Len(tasks)
  /\ \A k \in 1..snapshot :
       LET notes == Creators[k].notes
           first == FirstLevelPositions(notes)
       IN /\ Creators[k].type = "task" => Len(tasks[k].subTaskIds) = Cardinality(first)
          /\ \A m \in 1..Len(notes) :
               (NoteItem(notes[m]) /\ Len(notes[m].ind) > 2 /\ \E j \in first : j < m) =>
                 LET n == Cardinality({j \in first : j < m})
                     sub == tasks[IndexOfId(tasks, tasks[k].subTaskIds[n])]
                 IN /\ InSeq(Dedent(notes[m]), sub.notes)
                    /\ sub.title = notes[CHOOSE j \in first :
                                           j < m /\ \A j2 \in first : j2 < m => j2 <= j].body.title
  /\ \A k \in (snapshot + 1)..Len(tasks) :
       /\ tasks[k].subTaskIds = <<>>
       /\ \E q \in 1..snapshot :
            /\ tasks[k].parentId = tasks[q].id
            /\ Creators[q].type = "task"
            /\ \E j \in FirstLevelPositions(Creators[q].notes) :
                 Creators[q].notes[j].body.title = tasks[k].title

ParentlessTasks == Cardinality({k \in 1..Len(tasks) : tasks[k].parentId = None})

SumOver(ts, F(_)) == SumSeq([c \in 1..Len(ts) |-> F(ts[c])])

Est(t) == t.timeEstimate

Spent(t) == t.timeSpent

SpentOn(t, d) == IF d \in DOMAIN t.timeSpentOnDay THEN t.timeSpentOnDay[d] ELSE 0

DirectChildren(ts, k) == SelectSeq(ts, LAMBDA t : t.parentId = ts[k].id)

\* C6: once the aggregation has run once, every task with subtasks has the
\* sums of its direct children as timeEstimate, timeSpent and timeSpentOnDay.
C6_ParentTimesAreChildSums ==
  (mode = "md" /\ pc = "parsed" /\ passes = 1) =>
    \A k \in 1..Len(tasks) :
      tasks[k].subTaskIds # <<>> =>
        LET ch == DirectChildren(tasks, k)
        IN /\ tasks[k].timeEstimate = SumOver(ch, Est)
           /\ tasks[k].timeSpent = SumOver(ch, Spent)
           /\ DOMAIN tasks[k].timeSpentOnDay =
                UNION {DOMAIN ch[c].timeSpentOnDay : c \in 1..Len(ch)}
           /\ \A d \in DOMAIN tasks[k].timeSpentOnDay :
                tasks[k].timeSpentOnDay[d] = SumOver(ch, LAMBDA t : SpentOn(t, d))

\* C7: a second run of the aggregation leaves timeEstimate, timeSpent,
\* timeSpentOnDay and isDone of every task as the first run left them.
C7_AggregationIdempotent ==
  [][(pc = "parsed" /\ passes >= 1 /\ passes' = passes + 1) =>
       /\ Len(tasks') = Len(tasks)
       /\ \A k \in 1..Len(tasks) :
            /\ tasks'[k].timeEstimate = tasks[k].timeEstimate
            /\ tasks'[k].timeSpent = tasks[k].timeSpent
            /\ tasks'[k].timeSpentOnDay = tasks[k].timeSpentOnDay
            /\ tasks'[k].isDone = tasks[k].isDone
  ]_vars

\* C8: after MarkdownConverter.parse() a task with a parent has no projectId
\* and is listed by no project of the generated document; a parentless task
\* belongs to exactly one project.
C8_SubtasksHaveNoProject ==
  (mode = "md" /\ pc = "parsed") =>
    \A k \in 1..Len(tasks) :
      IF tasks[k].parentId # None
      THEN /\ tasks[k].projectId = None
           /\ \A q \in 1..Len(document.project) :
                ~InSeq(tasks[k].id, document.project[q].taskIds)
      ELSE /\ Cardinality({q \in 1..Len(projects) : projects[q].id = tasks[k].projectId}) = 1
           /\ gens >= 1 =>
                Cardinality({q \in 1..Len(document.project) :
                               InSeq(tasks[k].id, document.project[q].taskIds)}) = 1

C10_CompletionPropagatesUpward ==
  [][(passes' = passes + 1) =>
       /\ Len(tasks') = Len(tasks)
       /\ \A k \in 1..Len(tasks) :
            LET ch == DirectChildren(tasks, k)
                doneOns == {ch[c].doneOn : c \in {c \in 1..Len(ch) : ch[c].doneOn # None}}
            IN IF /\ ch # <<>>
                  /\ ~tasks[k].isDone
                  /\ \A c \in 1..Len(ch) : ch[c].isDone
               THEN /\ tasks'[k].isDone
                    /\ \A n \in doneOns : n <= tasks'[k].doneOn
                    /\ tasks'[k].doneOn \in
                         (IF doneOns = {} THEN {tasks[k].created} ELSE doneOns)
               ELSE /\ tasks'[k].isDone = tasks[k].isDone
                    /\ tasks'[k].doneOn = tasks[k].doneOn
  ]_vars

C10_Witness ==
  /\ pc = "parsed"
  /\ \E k, a, b \in 1..Len(tasks) :
       /\ tasks[a].parentId = tasks[k].id
       /\ tasks[b].parentId = tasks[k].id
       /\ tasks[a].doneOn < tasks[b].doneOn
       /\ tasks[k].isDone
       /\ tasks[k].doneOn = tasks[b].doneOn
       /\ tasks[k].doneOn > tasks[k].created


(* ------------------------------- C11 ------------------------------------ *)
Positions(seq, Test(_)) ==
  SelectSeq([k \in 1..Len(seq) |-> k], LAMBDA k : Test(seq[k]))

ProjectIdOf(title) == projects[CHOOSE k \in 1..Len(projects) : projects[k].title = title].id

IsHeaderRecord(r) == r.type = "regular" /\ HeaderMatch(r.line)

\* the records before the one that created tasks[j] hold no header
NoHeaderSeen(j) ==
  \A q \in 1..(Positions(processed_lines, IsCreator)[j] - 1) :
    ~IsHeaderRecord(processed_lines[q])

\* the tasks of the rows of the sheet whose project cell is blank
BlankProjectRowTasks ==
  {k \in 1..Len(tasks) :
     /\ tasks[k].parentId = None
     /\ \E n \in 1..Len(rows) : rows[n].title = tasks[k].title /\ rows[n].project = ""}

DefaultProjectExists ==
  /\ TitleCount(projects, DefaultTitle) = 1
  /\ document # NoDocument => TitleCount(document.project, DefaultTitle) = 1

\* C11 as stated: in every state there is exactly one project titled
\* "Imported Tasks", and every task created while no header had been seen,
\* and every task of a CSV row with a blank project, has that project's id.
C11_DefaultProjectForEveryTask ==
  /\ DefaultProjectExists
  /\ (mode = "md" /\ pc = "parsed" /\ \A l \in 1..Len(lines) : ~HeaderMatch(lines[l]))
       => \A k \in 1..Len(tasks) : tasks[k].projectId = ProjectIdOf(DefaultTitle)
  /\ (mode = "csv" /\ pc = "parsed")
       => \A k \in BlankProjectRowTasks : tasks[k].projectId = ProjectIdOf(DefaultTitle)

\* C11 amended: in every state there is exactly one project titled
\* "Imported Tasks"; every task that the second pass creates without a parent
\* while no header has been seen, and every task of a CSV row with a blank
\* project, has that project's id.
C11_DefaultProject ==
  /\ DefaultProjectExists
  /\ (mode = "md" /\ pc = "parsed")
       => \A j \in 1..Len(Creators) :
            (tasks[j].parentId = None /\ NoHeaderSeen(j))
              => tasks[j].projectId = ProjectIdOf(DefaultTitle)
  /\ (mode = "csv" /\ pc = "parsed")
       => \A k \in BlankProjectRowTasks : tasks[k].projectId = ProjectIdOf(DefaultTitle)

\* a headerless document gave a task to the default project while another
\* task of it has no project
C11_Witness ==
  /\ mode = "md" /\ pc = "parsed"
  /\ \A l \in 1..Len(lines) : ~HeaderMatch(lines[l])
  /\ \E j \in 1..Len(Creators) :
       tasks[j].parentId = None /\ tasks[j].projectId = ProjectIdOf(DefaultTitle)
  /\ \E k \in 1..Len(tasks) : tasks[k].projectId = None

(* ------------------------------- C12 ------------------------------------ *)
ZeroIndentTask(l) == (TaskMatch(l) \/ BareTaskMatch(l)) /\ Len(l.ind) = 0

TaskOrHeader(l) == ZeroIndentTask(l) \/ HeaderMatch(l)

\* a piece of text of the form digits, separator, digits, separator, digits
\* with 1-2, 1-2 and 2-4 digits
DateShaped(d) ==
  \E a \in 1..2, b \in 1..2, c \in 2..4 :
    /\ Len(d) = a + b + c + 2
    /\ \A k \in 1..Len(d) :
         IF k \in {a + 1, a + b + 2} THEN d[k] \in {"/", "-"} ELSE d[k] \in Digit

\* the pieces chars[p..q] of the text that are date-shaped: they have 6 to 10
\* characters
DatePieces(chars) ==
  {pq \in {<<p, p + n - 1>> : p \in 1..Len(chars), n \in 6..10} :
     pq[2] <= Len(chars) /\ DateShaped(SubSeq(chars, pq[1], pq[2]))}

\* the leftmost date-shaped piece, the longest one at that place
LeftmostLongest(pieces) ==
  CHOOSE pq \in pieces : \A o \in pieces :
    pq[1] < o[1] \/ (pq[1] = o[1] /\ pq[2] >= o[2])

\* the date as written: the piece grown over the digits and separators around it
RECURSIVE GrowLeft(_, _)
GrowLeft(chars, p) ==
  IF p > 1 /\ chars[p - 1] \in Digit \cup {"/", "-"} THEN GrowLeft(chars, p - 1) ELSE p

RECURSIVE GrowRight(_, _)
GrowRight(chars, q) ==
  IF q < Len(chars) /\ chars[q + 1] \in Digit \cup {"/", "-"} THEN GrowRight(chars, q + 1) ELSE q

WrittenDate(chars) ==
  SubSeq(chars, GrowLeft(chars, LeftmostLongest(DatePieces(chars))[1]),
                GrowRight(chars, LeftmostLongest(DatePieces(chars))[2]))

MatchedDate(chars) ==
  SubSeq(chars, LeftmostLongest(DatePieces(chars))[1], LeftmostLongest(DatePieces(chars))[2])

\* the project title for the header text, the date being given by DateIn
TitleFor(header_text, DateIn(_)) ==
  IF DatePieces(Chars(header_text)) = {} THEN header_text
  ELSE "Tasks for " \o Join(DateIn(Chars(header_text)))

LastHeaderBefore(p) == MaxOf({h \in 1..(p - 1) : HeaderMatch(lines[h])}, 0)

\* every zero-indentation task line has its task, in the project of the
\* last header before the line
AssignedToLastHeader(DateIn(_)) ==
  LET zero == Positions(lines, ZeroIndentTask)
      made == Positions(Creators, LAMBDA r : r.type = "task")
  IN /\ Len(zero) = Len(made)
     /\ \A n \in 1..Len(zero) :
          /\ Creators[made[n]].line = lines[zero[n]]
          /\ LET title == IF LastHeaderBefore(zero[n]) = 0 THEN DefaultTitle
                           ELSE TitleFor(lines[LastHeaderBefore(zero[n])].body.title, DateIn)
             IN /\ TitleCount(projects, title) = 1
                /\ tasks[made[n]].projectId = ProjectIdOf(title)

\* tasks and headers are emitted in the order of the document
EmittedInDocumentOrder ==
  SelectSeq(LinesOf(Finalized), TaskOrHeader) = SelectSeq(SubSeq(lines, 1, i), TaskOrHeader)

TagIdsOf(entities) == {entities[k].id : k \in 1..Len(entities)}

TagIdOf(title) == tags[CHOOSE k \in 1..Len(tags) : tags[k].title = title].id

\* the tag names written on the lines and rows of the input
InputTagNames ==
  UNION ({{l.body.tags[n] : n \in 1..Len(l.body.tags)} : l \in Range(lines)}
         \cup {{r.tags[n] : n \in 1..Len(r.tags)} : r \in Range(rows)})

\* the tasks whose text names their tags: those of the second pass and the
\* row tasks of a sheet
NamesTheirTags(k, names) ==
  /\ Len(tasks[k].tagIds) = Len(names)
  /\ \A n \in 1..Len(names) :
       /\ TitleCount(tags, names[n]) = 1
       /\ tasks[k].tagIds[n] = TagIdOf(names[n])

\* C13: every tag name maps to one Tag: no two Tags of the collection share a
\* title or an id, the tag ids of a task made from a line with hashtags are
\* those of the Tags titled by the hashtags, and every id in the tagIds of a
\* task, own or inherited, is the id of a Tag of the collection; the same
\* holds of the generated document.
C13_TagsByName ==
  /\ \A j \in 1..Len(tags), k \in 1..Len(tags) :
       (tags[j].title = tags[k].title \/ tags[j].id = tags[k].id) => j = k
  /\ \A t \in InputTagNames : TitleCount(tags, t) <= 1
  /\ pc # "merged" =>
       \A k \in 1..Len(tasks) : Range(tasks[k].tagIds) \subseteq TagIdsOf(tags)
  /\ (mode = "md" /\ pc = "parsed") =>
       \A j \in 1..Len(Creators) :
         Creators[j].line.body.tags # <<>> =>
           NamesTheirTags(j, Creators[j].line.body.tags)
  /\ document # NoDocument =>
       /\ \A k \in 1..Len(document.task) :
            Range(document.task[k].tagIds) \subseteq TagIdsOf(document.tag)
       /\ \A j \in 1..Len(document.tag), k \in 1..Len(document.tag) :
            document.tag[j].title = document.tag[k].title => j = k

\* two tasks name the same tag, one of them twice, and a promoted subtask
\* inherited a tag of its parent
C13_Witness ==
  /\ mode = "md" /\ pc = "parsed"
  /\ \E j \in 1..Len(tasks), k \in 1..Len(tasks) :
       /\ j # k
       /\ tasks[j].tagIds # <<>> /\ Range(tasks[j].tagIds) \subseteq Range(tasks[k].tagIds)
       /\ Len(tasks[k].tagIds) = 2
       /\ tasks[j].parentId # None
       /\ \E l \in 1..Len(lines) : lines[l].body.title = tasks[j].title /\ lines[l].body.tags = <<>>
  /\ Len(tags) >= 2

(* ------------------------------- C14 ------------------------------------ *)
\* C14: no task's tagIds holds the same tag id twice, whichever converter
\* made the task.
C14_NoDuplicateTagIds ==
  \A k \in 1..Len(tasks) :
    \A m \in 1..Len(tasks[k].tagIds), n \in 1..Len(tasks[k].tagIds) :
      tasks[k].tagIds[m] = tasks[k].tagIds[n] => m = n

(* ------------------------------- C15 ------------------------------------ *)
\* a row that yields tasks: it has a title and all its columns
YieldingRow(r) == r.title # "" /\ ~r.short

SubtaskTitles(r) == SelectSeq(r.subtasks, LAMBDA t : t # "")

\* the number of tasks the first n rows of the sheet yield
RECURSIVE TasksOfRows(_)
TasksOfRows(n) ==
  IF n = 0 THEN 0
  ELSE TasksOfRows(n - 1)
       + (IF YieldingRow(rows[n]) THEN Len(SubtaskTitles(rows[n])) + 1 ELSE 0)

\* C15: a CSV row with a non-empty title and k non-empty subtask titles
\* yields k + 1 tasks, the k subtasks and then the row's task; the row's
\* task lists the k subtasks in its subTaskIds, and each subtask has the
\* row's task as parentId, the row's projectId and the row's tagIds.
C15_CsvSubtasks ==
  (mode = "csv" /\ pc \in {"rows", "parsed"}) =>
    /\ Len(tasks) = TasksOfRows(rec)
    /\ \A n \in 1..rec :
         YieldingRow(rows[n]) =>
           LET k == Len(SubtaskTitles(rows[n]))
               first == TasksOfRows(n - 1)
               task == tasks[first + k + 1]
           IN /\ task.title = rows[n].title
              /\ task.parentId = None
              /\ Len(task.subTaskIds) = k
              /\ \A m \in 1..k :
                   /\ tasks[first + m].id = task.subTaskIds[m]
                   /\ tasks[first + m].title = SubtaskTitles(rows[n])[m]
                   /\ tasks[first + m].parentId = task.id
                   /\ tasks[first + m].projectId = task.projectId
                   /\ tasks[first + m].tagIds = task.tagIds
                   /\ tasks[first + m].subTaskIds = <<>>

\* a parsed sheet with a row of two subtasks, a blank one between them, and tags
C15_Witness ==
  /\ mode = "csv" /\ pc = "parsed"
  /\ \E n \in 1..Len(rows) :
       /\ YieldingRow(rows[n])
       /\ Len(SubtaskTitles(rows[n])) = 2 /\ Len(rows[n].subtasks) = 3
  /\ \E k \in 1..Len(tasks) : Len(tasks[k].subTaskIds) = 2 /\ tasks[k].tagIds # <<>>

(* ------------------------------- C16 ------------------------------------ *)
\* the texts of the non-blank lines of a notes block
TextsOf(notes) ==
  LET filled == SelectSeq(notes, LAMBDA l : ~IsBlank(l))
  IN [m \in 1..Len(filled) |-> filled[m].body.title]

\* the texts a promoted subtask holds: its title line and its notes
RECURSIVE TextsOfSubtasks(_)
TextsOfSubtasks(ids) ==
  IF ids = <<>> THEN <<>>
  ELSE <<tasks[IndexOfId(tasks, Head(ids))].title>>
       \o TextsOf(tasks[IndexOfId(tasks, Head(ids))].notes)
       \o TextsOfSubtasks(Tail(ids))

\* C16: after parse(), every non-blank line of the notes block of a
\* top-level task is in exactly one place, the rewritten notes of the task or
\* one promoted subtask (as its title line or in its notes): each line is
\* there as many times as it was written, never in both places, never lost.
C16_NotesInOnePlace ==
  (mode = "md" /\ pc = "parsed") =>
    \A k \in 1..Len(Creators) :
      Creators[k].type = "task" =>
        \A t \in Range(TextsOf(Creators[k].notes)) :
          Count(t, TextsOf(Creators[k].notes))
            = Count(t, TextsOf(tasks[k].notes))
              + Count(t, TextsOfSubtasks(tasks[k].subTaskIds))

(* ------------------------------- C17 ------------------------------------ *)
\* the annotation matches a due pattern and no format accepts its value
Unparseable(due) == due.kind # "none" /\ due.fmt = ""

\* C17: a due annotation whose value cannot be parsed is treated as no
\* match: the task has no dueDay and no dueWithTime, and the annotation is
\* not stripped, it stays in the title after the rest of the text.
C17_UnparseableDueStays ==
  (mode = "md" /\ pc = "parsed") =>
    \A j \in 1..Len(Creators) :
      Unparseable(Creators[j].line.body.due) =>
        /\ tasks[j].dueDay = NoDay
        /\ tasks[j].dueWithTime = None
        /\ tasks[j].title
             = Creators[j].line.body.title \o " " \o Creators[j].line.body.due.text

(* ------------------------------- C18 ------------------------------------ *)
\* C18: a dueDay that is present is written YYYY-MM-DD, and when a task has
\* both dueDay and dueWithTime the dueDay is the date of dueWithTime.
C18_DueDayNormalized ==
  \A k \in 1..Len(tasks) :
    /\ tasks[k].dueDay # NoDay => tasks[k].dueDay.fmt = "iso"
    /\ (tasks[k].dueDay # NoDay /\ tasks[k].dueWithTime # None)
         => tasks[k].dueDay.day = DateOf(tasks[k].dueWithTime)

(* ------------------------------- C19 ------------------------------------ *)
OwnReferences ==
  \A k \in 1..Len(tasks) :
    /\ tasks[k].projectId # None => HasId(projects, tasks[k].projectId)
    /\ \A n \in 1..Len(tasks[k].tagIds) : HasId(tags, tasks[k].tagIds[n])

\* C19: when the prior file cannot be loaded or lacks data.task, data.project
\* or data.tag, merge_with_existing_data raises the descriptive ValueError
\* and returns no merged document, and the tasks still refer to the
\* converter's own projects and tags.
C19_MalformedPriorIsValueError ==
  error.file \in MalformedFiles =>
    /\ error.raised = "ValueError"
    /\ merged = NoDocument
    /\ OwnReferences

(* ------------------------------- C20 ------------------------------------ *)
\* the titles of the units of the input whose processing raises
FailingTitles ==
  {l.body.title : l \in {x \in Range(lines) : Raises(x.body)}}
  \cup {r.title : r \in {x \in Range(rows) : x.short /\ x.title # ""}}

\* C20: an exception raised for one CSV row or one Markdown record does not
\* abort parse(): parse() does not end with the exception, the later units
\* are processed, and the failing unit adds no task.
C20_FailureDoesNotAbort ==
  /\ pc # "failed"
  /\ \A k \in 1..Len(tasks) : tasks[k].title \notin FailingTitles
  /\ (mode = "csv" /\ pc = "parsed") => rec = Len(rows)
  /\ (mode = "md" /\ pc = "parsed") =>
       /\ rec = snapshot
       /\ Len(Creators) = snapshot

NoDigit(chars) == \A k \in 1..Len(chars) : chars[k] \notin Digit

\* the value of "<N>h", "<M>m", "<N>h <M>m" and of the bare number "<M>"
UnitFormsExact ==
  \A N \in 0..MaxN, M \in 0..MaxN :
    /\ estimate_str = Dec(N) \o <<"h">> => estimate.total_ms = N * 3600000
    /\ estimate_str = Dec(M) \o <<"m">> => estimate.total_ms = M * 60000
    /\ estimate_str = Dec(N) \o <<"h", " ">> \o Dec(M) \o <<"m">>
         => estimate.total_ms = N * 3600000 + M * 60000
    /\ estimate_str = Dec(M) => estimate.total_ms = M * 60000

\* C22: _parse_time_estimate returns N*3600000 for "<N>h", M*60000 for "<M>m",
\* their sum for "<N>h <M>m", M*60000 for the bare number "<M>" and 0 for an
\* empty or unparseable string; it returns for every string, and the result
\* is never negative.
C22_TimeEstimate ==
  pc = "estimated" =>
    /\ UnitFormsExact
    /\ NoDigit(estimate_str) => estimate = Returned(0)
    /\ estimate.raised = ""
    /\ estimate.total_ms >= 0

(* ------------------------------- C23 ------------------------------------ *)
\* C23: after parse() of either converter a task has a doneOn timestamp if
\* and only if it is done, whether the input marked it done or the
\* aggregation did.
C23_DoneOnIffDone ==
  Parsed => \A k \in 1..Len(tasks) : tasks[k].isDone <=> tasks[k].doneOn # None

\* a parsed document with a subtask done by its bracket, its parent that the
\* aggregation marked done, each with its doneOn, and a task that is not done
C23_Witness ==
  /\ MdParsed
  /\ \E k \in 1..snapshot :
       /\ ZeroCheckbox(Creators[k].line) /\ Creators[k].line.box = "[ ]"
       /\ tasks[k].isDone /\ tasks[k].doneOn # None
  /\ \E k \in 1..Len(tasks) :
       tasks[k].parentId # None /\ tasks[k].isDone /\ tasks[k].doneOn = tasks[k].created
  /\ \E k \in 1..Len(tasks) : ~tasks[k].isDone /\ tasks[k].doneOn = None

(* ------------------------------- C24 ------------------------------------ *)
\* a task line whose text is annotations only
OnlyMetadata(l) ==
  /\ TaskMatch(l) \/ BareTaskMatch(l)
  /\ l.body # NoBody /\ l.body.title = ""

\* C24: a task line whose text after the checkbox is consumed whole by the
\* metadata stripping yields exactly one task, with an empty title and the
\* metadata of the line: the tasks of the second pass are, in order, those of
\* the task lines, none dropped.
C24_EmptyTitleTask ==
  MdParsed =>
    /\ Len(Creators) = snapshot
    /\ \A k \in 1..snapshot :
         /\ tasks[k].title = MatchContent(Creators[k].line).title
         /\ OnlyMetadata(Creators[k].line) =>
              /\ tasks[k].title = ""
              /\ Len(tasks[k].tagIds) = Len(Creators[k].line.body.tags)

\* a parsed document with two lines of metadata only, each with its task
C24_Witness ==
  /\ MdParsed
  /\ Cardinality({p \in 1..Len(lines) : OnlyMetadata(lines[p])}) = 2
  /\ Cardinality({k \in 1..Len(tasks) : tasks[k].title = "" /\ tasks[k].tagIds # <<>>}) = 2

(* ------------------------------- C26 ------------------------------------ *)
\* the text holds a time-spent annotation
HasTimeSpent(content) == content.spent > 0 \/ content.sdate # None

\* C26: a time-spent annotation never sets dueDay or dueWithTime, whatever
\* its duration, zero included: the due fields of a task come from the due
\* annotation of its line alone, and the date suffix of a time-spent
\* annotation of positive duration is the key of timeSpentOnDay.
C26_TimeSpentIsNotDue ==
  MdParsed =>
    \A k \in 1..Len(Creators) :
      HasTimeSpent(MatchContent(Creators[k].line)) =>
        /\ tasks[k].dueDay = DueDateOf(MatchContent(Creators[k].line).due)
        /\ tasks[k].dueWithTime = ParseDateWithTime(MatchContent(Creators[k].line).due)
        /\ (Creators[k].line.body.spent > 0 /\ Creators[k].line.body.sdate # None
              /\ tasks[k].subTaskIds = <<>>)
             => DOMAIN tasks[k].timeSpentOnDay = {Creators[k].line.body.sdate}

(* ------------------------------- C25 ------------------------------------ *)
\* the entry of the merged collection with the id
EntryOf(collection, id) == collection[IndexOfId(collection, id)]

NoRepeat(seq) == \A a, b \in 1..Len(seq) : seq[a] = seq[b] => a = b

\* C25: at the end of the merge every task of the converter whose projectId,
\* or an entry of whose tagIds, was rewritten to the id of a prior project or
\* tag occurs exactly once in the taskIds of that prior entry, and no prior
\* entry lists a task id twice.
C25_LinkedBeforeRewrite ==
  pc = "merged" =>
    /\ \A k \in 1..Len(tasks) :
         /\ HasId(prior.project, tasks[k].projectId) =>
              Count(tasks[k].id, EntryOf(merged.project, tasks[k].projectId).taskIds) = 1
         /\ \A n \in 1..Len(tasks[k].tagIds) :
              HasId(prior.tag, tasks[k].tagIds[n]) =>
                Count(tasks[k].id, EntryOf(merged.tag, tasks[k].tagIds[n]).taskIds) = 1
    /\ \A q \in 1..Len(prior.project) :
         NoRepeat(EntryOf(merged.project, prior.project[q].id).taskIds)
    /\ \A q \in 1..Len(prior.tag) :
         NoRepeat(EntryOf(merged.tag, prior.tag[q].id).taskIds)

\* a merge in which two tasks were moved to a prior project that listed a
\* task already, and a task naming a tag twice was moved to a prior tag
C25_Witness ==
  /\ pc = "merged"
  /\ \E q \in 1..Len(prior.project) :
       /\ prior.project[q].taskIds # <<>>
       /\ Cardinality({k \in 1..Len(tasks) : tasks[k].projectId = prior.project[q].id}) >= 2
  /\ \E k \in 1..Len(tasks) :
       /\ Len(tasks[k].tagIds) = 2 /\ tasks[k].tagIds[1] = tasks[k].tagIds[2]
       /\ HasId(prior.tag, tasks[k].tagIds[1])
       /\ EntryOf(prior.tag, tasks[k].tagIds[1]).taskIds # <<>>

(* ------------------------------- C27 ------------------------------------ *)
\* the first header or zero-indentation task line after line p among the
\* lines read so far; i + 1 when there is none
NextTaskOrHeader(p) ==
  IF \E q \in (p + 1)..i : TaskOrHeader(lines[q])
  THEN CHOOSE q \in (p + 1)..i :
         TaskOrHeader(lines[q]) /\ \A m \in (p + 1)..(q - 1) : ~TaskOrHeader(lines[m])
  ELSE i + 1

\* C27: a header closes the open notes buffer. In every state of the
\* partitioner and after it, the record of a zero-indentation task holds as
\* notes exactly the lines between the task line and the next header (or the
\* next zero-indentation task), stripped: no line after that header is in
\* them; and the header is emitted right after the record of the task.
C27_HeaderClosesNotes ==
  mode = "md" =>
    LET zero == Positions(SubSeq(lines, 1, i), ZeroIndentTask)
        made == Positions(Finalized, LAMBDA r : r.type = "task")
    IN /\ Len(zero) = Len(made)
       /\ \A n \in 1..Len(zero) :
            /\ Finalized[made[n]].line = lines[zero[n]]
            /\ Finalized[made[n]].notes
                 = StripBlock(SubSeq(lines, zero[n] + 1, NextTaskOrHeader(zero[n]) - 1))
            /\ (NextTaskOrHeader(zero[n]) <= i /\ HeaderMatch(lines[NextTaskOrHeader(zero[n])]))
                 => /\ made[n] < Len(Finalized)
                    /\ Finalized[made[n] + 1] = RegularRecord(lines[NextTaskOrHeader(zero[n])])

\* a task with a line of notes, then a header, then an indented line that
\* is not a note of the task
C27_Witness ==
  /\ mode = "md" /\ pc = "second" /\ Len(lines) = 3 /\ i = 3
  /\ ZeroIndentTask(lines[1]) /\ HeaderMatch(lines[3])
  /\ ~IsBlank(lines[2]) /\ Len(lines[2].ind) > 0
  /\ processed_lines[1].notes = StripBlock(<<lines[2]>>)
  /\ processed_lines[2] = RegularRecord(lines[3])

(* ------------------------------- C28 ------------------------------------ *)
\* the sum of the values of a map
RECURSIVE SumOfMap(_)
SumOfMap(f) ==
  IF DOMAIN f = {} THEN 0
  ELSE LET d == CHOOSE x \in DOMAIN f : TRUE
       IN f[d] + SumOfMap([x \in DOMAIN f \ {d} |-> f[x]])

\* C28: after MarkdownConverter.parse() the timeSpent of every task is the
\* sum of the values of its timeSpentOnDay: of a leaf with an explicit
\* time-spent annotation, of a done leaf credited with its estimate, of a
\* leaf with neither, and of a parent after the roll-up.
C28_TimeSpentIsSumOfDays ==
  MdParsed =>
    \A k \in 1..Len(tasks) : tasks[k].timeSpent = SumOfMap(tasks[k].timeSpentOnDay)

\* a parent whose two children logged time on the same day, next to a task
\* without time
C28_Witness ==
  /\ MdParsed
  /\ \E k \in 1..Len(tasks) :
       /\ Len(tasks[k].subTaskIds) = 2
       /\ Cardinality(DOMAIN tasks[k].timeSpentOnDay) = 1
       /\ tasks[k].timeSpent = 2
       /\ \A c \in 1..Len(tasks) :
            tasks[c].parentId = tasks[k].id => tasks[c].timeSpent = 1

(* ---------------------------------- C29 --------------------------------- *)
\* parse() has not yet returned or raised
Running == pc \in {"start", "collect", "second", "promote", "rows"}

\* the loops of parse() that are still to come, and the iterations left of
\* the loop parse() is in
PhasesLeft ==
  CASE pc = "start" -> 4
    [] pc = "collect" -> 3
    [] pc = "second" -> 2
    [] pc \in {"promote", "rows"} -> 1
    [] OTHER -> 0

IterationsLeft ==
  CASE pc = "collect" -> Len(lines) - i
    [] pc = "second" -> Len(processed_lines) - rec
    [] pc = "promote" -> snapshot - rec
    [] pc = "rows" -> Len(rows) - rec
    [] OTHER -> 0

\* no loop of parse() has more iterations than the input has lines or rows
MostIterations == Len(lines) + Len(rows) + 1

WorkLeft == PhasesLeft * MostIterations + IterationsLeft

\* the notes blocks _clean_processed_notes is given in this run
NotesBlocks ==
  {processed_lines[k].notes : k \in 1..Len(processed_lines)}
    \cup {tasks[k].notes : k \in 1..Len(tasks)}

\* on the block, an iteration of the outer loop at index p ends with the
\* index past p, and an iteration of the inner loop at p moves one line on
\* or leaves the loop with the index where it was or one line on
LoopsAdvance(block) ==
  \A p \in 1..Len(block) :
    /\ CleanIteration(block, p, <<>>).i \in (p + 1)..(Len(block) + 1)
    /\ IF SkipIteration(block, p, <<>>).leave
       THEN SkipIteration(block, p, <<>>).i \in {p, p + 1}
       ELSE SkipIteration(block, p, <<>>).i = p + 1

\* an iteration of the promotion loop: the copy it iterates over is the
\* same, one more of its tasks is done, and the tasks appended after the
\* copy was taken are neither visited nor changed
PromotionStep ==
  (pc = "promote" /\ pc' = "promote") =>
    /\ snapshot' = snapshot
    /\ rec' = rec + 1
    /\ Len(tasks') >= Len(tasks)
    /\ \A k \in (snapshot + 1)..Len(tasks) : tasks'[k] = tasks[k]

\* C29: parse() terminates on every finite input: while parse() runs, the
\* loop it is in has not passed its end, so that one of its statements can
\* run, every step of it lessens the work that is left, which is never
\* negative, the promotion pass walks the copy of the
\* task list taken when it began, so the subtasks it appends are not
\* visited, and every iteration of the two loops of _clean_processed_notes
\* advances the line index or leaves the loop.
C29_ParseTerminates ==
  /\ [](IterationsLeft \in 0..(MostIterations - 1))
  /\ [](pc = "promote" => snapshot <= Len(tasks))
  /\ [](\A block \in NotesBlocks : LoopsAdvance(block))
  /\ [][(Running => WorkLeft' < WorkLeft) /\ PromotionStep]_vars

\* parse() has ended after a promotion pass that appended subtasks to the
\* list it walked a copy of, and after the inner loop of
\* _clean_processed_notes has skipped a nested line
C29_Witness ==
  /\ pc = "parsed"
  /\ mode = "md"
  /\ snapshot > 0
  /\ Len(tasks) > snapshot
  /\ \E k \in 1..Len(processed_lines) :
       \E p \in 1..Len(processed_lines[k].notes) :
         /\ IsFirstLevel(processed_lines[k].notes[p])
         /\ p < Len(processed_lines[k].notes)
         /\ ~SkipIteration(processed_lines[k].notes, p + 1, <<>>).leave

(* ---------------------------------- C30 --------------------------------- *)
\* the document is a top-level task line followed by checkbox lines only,
\* all of one indentation, so that the lines stand directly under the task
SameIndentUnderTask ==
  /\ Len(lines) >= 2
  /\ TaskMatch(lines[1]) \/ BareTaskMatch(lines[1])
  /\ lines[1].ind = I0
  /\ ~Raises(MatchContent(lines[1]))
  /\ \A p \in 2..Len(lines) :
       /\ CheckboxTaskMatch(lines[p])
       /\ lines[p].ind # I0
       /\ lines[p].ind = lines[2].ind
       /\ ~Raises(lines[p].body)

\* the tasks that promotion made subtasks of the first task
PromotedUnderFirst == {k \in 1..Len(tasks) : tasks[k].parentId = tasks[1].id}

\* C30: checkbox lines of the same indentation that stand directly under
\* the same top-level task are treated alike by promotion, whatever the
\* indentation is: each of them becomes a subtask of the task or none does.
C30_SameIndentAlike ==
  (MdParsed /\ SameIndentUnderTask) =>
    Cardinality(PromotedUnderFirst) \in {0, Len(lines) - 1}

====
